---- MODULE Spec2Model ----
(***************************************************************************)
(* A model of the media indexer of generate_webviewer.py: the content      *)
(* hasher and its signature cache, the duration prober, the artifact       *)
(* generator, the ratings table, the in-memory index and the request       *)
(* handlers that read and patch it from concurrent request threads.        *)
(***************************************************************************)
EXTENDS Integers, Sequences, FiniteSets, TLC

(***************************************************************************)
(* Bounds of the model.                                                    *)
(***************************************************************************)
\* how many requests the clients send while the environment is quiet
MaxRequests == 3
\* in the specification of moves and restarts: how many times a file is renamed
\* or the process restarted, and how many requests the clients send meanwhile
MaxEvents == 2
MaxRequestsDuringEvents == 1
\* in the specification of changing files: how many times a file is written,
\* deleted or renamed, and how many refreshes the clients request meanwhile
MaxFileEvents == 1
MaxRefreshesDuringFileEvents == 1
\* in the specification of concurrent queries: the same two
MaxEventsDuringQueries == 1
MaxQueryRequests == 2
\* in the specification of the index after a reindex: how many files are
\* written or deleted and how many requests the clients send meanwhile
MaxIndexEvents == 2
MaxIndexRequests == 2
\* in the specification of mutations during a reindex: how many requests
MaxRejoinRequests == 3
\* in the specification of the filters: how many requests
MaxFilterRequests == 3
\* in the specification of the scanner: how many files are added and how
\* many refreshes the clients request meanwhile
MaxScanEvents == 2
MaxScanRefreshes == 1
\* in the specification of the frame offsets: the longest duration, in tenths
\* of a second
MaxDurationTenths == 120
\* in the specification of the cache documents: restarts, and refreshes
MaxDocEvents == 2
MaxDocRefreshes == 1
\* in the specification of queries concurrent with ratings and plays: requests
MaxSnapshotRequests == 3
\* in the specification of two concurrent reindexes: deletions, and refreshes
MaxStaleEvents == 1
MaxStaleRefreshes == 2
\* in the specification of flushes concurrent with cache updates: writes, and
\* refreshes
MaxFlushEvents == 1
MaxFlushRefreshes == 2
\* in the specification of the move of the negatively rated files: requests
MaxMinusRequests == 3

(***************************************************************************)
(* Program constants.                                                      *)
(***************************************************************************)
VIDEO_PREVIEW_COUNT == 8
PREVIEW_STEP_SECONDS == 2
PREVIEW_START_SECONDS == 10

(***************************************************************************)
(* The universe: paths below APP_ROOT, file contents, request threads.     *)
(* A path is the record of its directory components and its file name; a   *)
(* file is its bytes (a content name) and its modification time.           *)
(***************************************************************************)
PathA == [dirs |-> <<>>, name |-> "a.jpg"]
PathB == [dirs |-> <<"sub">>, name |-> "b.JPG"]
PathV == [dirs |-> <<>>, name |-> "v.mp4"]
Paths == {PathA, PathB, PathV}
\* further paths, for the specifications about what the scanner lists: a text
\* file, a second video, a hidden file, a file in a hidden directory and a
\* generated thumbnail in the metadata area
PathN == [dirs |-> <<>>, name |-> "n.txt"]
PathW == [dirs |-> <<"sub">>, name |-> "w.mp4"]
PathDot == [dirs |-> <<>>, name |-> ".h.jpg"]
PathHid == [dirs |-> <<".git">>, name |-> "c.jpg"]
PathM == [dirs |-> <<"_metadata", "thumbnails">>, name |-> "t.jpg"]

Contents == {"X", "Y"}
Threads == {"t1", "t2"}

\* Path.suffix.lower() of the names of the universe
SuffixLower(name) ==
    CASE name = "a.jpg" -> ".jpg"
      [] name = "b.JPG" -> ".jpg"
      [] name = "v.mp4" -> ".mp4"
      [] name = "w.mp4" -> ".mp4"
      [] name = "n.txt" -> ".txt"
      [] name = ".h.jpg" -> ".jpg"
      [] name = "c.jpg" -> ".jpg"
      [] name = "t.jpg" -> ".jpg"
      [] OTHER -> ""

IMAGE_EXTENSIONS == {".jpg", ".jpeg", ".png", ".gif", ".bmp", ".webp"}
VIDEO_EXTENSIONS == {".mp4", ".mkv", ".mov", ".avi", ".webm", ".m4v"}
MEDIA_EXTENSIONS == IMAGE_EXTENSIONS \cup VIDEO_EXTENSIONS

\* st_size of a file with these bytes: both contents have the same length, so
\* that only the modification time tells two versions of a file apart
Size(c) == 4

\* sha256 of the bytes, hex-encoded: injective on the contents of the universe
Sha256Hex(c) == <<"sha256", c>>
Hashes == {Sha256Hex(c) : c \in Contents}

\* str(path): the absolute path used as the key of the hash cache
CacheKey(p) == <<"APP_ROOT", p>>
\* path.relative_to(APP_ROOT).as_posix()
RelativePosix(p) == p
\* "/" in entry.relative_path
HasSeparator(rel) == Len(rel.dirs) > 0

\* f"{stat.st_mtime_ns}:{stat.st_size}"
Signature(f) == <<f.mtime, Size(f.content)>>

\* f"{media_hash}.jpg" in THUMB_DIR, f"{media_hash}_{index}.jpg" in PREVIEW_DIR
ThumbName(h) == <<"thumb", h>>
PreviewName(h, i) == <<"preview", h, i>>

\* Optional values: <<>> is None, <<v>> is a value
None == <<>>
Some(v) == <<v>>

\* What can be at the path of a cache document: the map dump_json wrote, no
\* file, text that is not JSON, or JSON that is not a map (a list, null)
DocKinds == {"map", "absent", "unparseable", "list"}
\* load_json: {} when the file is absent or json.load raises JSONDecodeError,
\* else whatever json.load returns
LoadJson(kind, doc) == IF kind = "map" THEN doc ELSE <<>>
\* the object load_json returned has a .get method (it is a dict)
IsDict(kind) == kind # "list"

VARIABLES
    fs,                \* the files below APP_ROOT: path -> [content, mtime]
    clock,             \* the file system's clock (next modification time)
    store,             \* the ratings table: hash -> [score, play_count]
    HASH_CACHE,        \* CacheKey -> [sig, hash]
    HASH_CACHE_DIRTY,
    hashDisk,          \* the document at HASH_CACHE_PATH
    VIDEO_INFO_CACHE,  \* hash -> [duration]
    VIDEO_INFO_DIRTY,
    videoDisk,         \* the document at VIDEO_INFO_PATH
    artifacts,         \* THUMB_DIR and PREVIEW_DIR: name -> "data" | "empty"
    heap,              \* the MediaEntry objects: id -> fields
    MEDIA_CACHE,       \* list of MediaEntry references
    MEDIA_LOOKUP,      \* relative path -> MediaEntry reference
    SCAN_METADATA,     \* lastScan, total, videos, images (empty before a scan)
    booted,            \* the import-time reindex is done, requests are served
    pc,                \* each thread's position
    rloc,              \* locals of refresh_media_index, per thread
    mloc,              \* locals of api_rate / api_play, per thread
    qloc,              \* locals of the queries, per thread
    resp,              \* the last response each thread sent (the boot thread: its outcome)
    asked,             \* per identity: the deltas and plays the clients asked for
    docs,              \* what is at HASH_CACHE_PATH / VIDEO_INFO_PATH: a map or not
    seek,              \* the frame offsets last computed for a duration
    budget             \* what the environment and the clients may still do

vars == <<fs, clock, store, HASH_CACHE, HASH_CACHE_DIRTY, hashDisk,
          VIDEO_INFO_CACHE, VIDEO_INFO_DIRTY, videoDisk, artifacts, heap,
          MEDIA_CACHE, MEDIA_LOOKUP, SCAN_METADATA, booted, pc, rloc, mloc,
          qloc, resp, asked, docs, seek, budget>>

(***************************************************************************)
(* Helpers on functions and sequences.                                     *)
(***************************************************************************)
EmptyMap == <<>>
Put(f, k, v) == (k :> v) @@ f
Get(f, k, default) == IF k \in DOMAIN f THEN f[k] ELSE default
Restrict(f, S) == [k \in S |-> f[k]]
Range(s) == {s[i] : i \in DOMAIN s}

RECURSIVE SeqFilter(_, _)
\* the elements of s that are in the set Keep, in order
SeqFilter(s, Keep) ==
    IF s = <<>> THEN <<>>
    ELSE IF Head(s) \in Keep THEN <<Head(s)>> \o SeqFilter(Tail(s), Keep)
    ELSE SeqFilter(Tail(s), Keep)

\* the smallest object id not in use
FreshId(h) ==
    CHOOSE i \in 1..(Cardinality(DOMAIN h) + 1) :
        i \notin DOMAIN h /\ \A j \in 1..(i - 1) : j \in DOMAIN h

(***************************************************************************)
(* Thread locals at rest.                                                  *)
(***************************************************************************)
RIdle == [metadata_map |-> EmptyMap, files |-> <<>>, idx |-> 0,
          new_entries |-> <<>>, media_hash |-> None, duration |-> None,
          thumbs |-> None, read |-> FALSE, probed |-> FALSE, invoked |-> {},
          caller |-> "refresh", moved_files |-> <<>>, failed_files |-> <<>>]
MIdle == [hash |-> None, raw |-> None, delta |-> 0, hit |-> None, value |-> 0]
QIdle == [params |-> None, entries |-> <<>>, filtered |-> <<>>, media |-> <<>>]
NoResp == [kind |-> "none", status |-> 0]

(***************************************************************************)
(* The state at process start: module import has created the metadata      *)
(* tree and the ratings table and loaded both cache documents; the index   *)
(* is empty and the import-time refresh_media_index() is about to run.     *)
(***************************************************************************)
InitialContent(p) == IF p \in {PathV, PathW} THEN "Y" ELSE "X"
InitialMtime(p) == CASE p = PathA -> 1 [] p = PathB -> 2 [] OTHER -> 3
FilesAt(S) == [p \in S |-> [content |-> InitialContent(p), mtime |-> InitialMtime(p)]]
InitialFs == {FilesAt(S) : S \in {T \in SUBSET Paths : PathA \in T /\ Cardinality(T) >= 2}}

ProcessStart ==
    /\ HASH_CACHE = LoadJson(docs.hash, hashDisk)
    /\ HASH_CACHE_DIRTY = FALSE
    /\ VIDEO_INFO_CACHE = LoadJson(docs.video, videoDisk)
    /\ VIDEO_INFO_DIRTY = FALSE
    /\ heap = EmptyMap
    /\ MEDIA_CACHE = <<>>
    /\ MEDIA_LOOKUP = EmptyMap
    /\ SCAN_METADATA = EmptyMap
    /\ booted = FALSE
    /\ pc = [t \in Threads |-> IF t = "t1" THEN "r_fetch" ELSE "idle"]
    /\ rloc = [t \in Threads |-> RIdle]
    /\ mloc = [t \in Threads |-> MIdle]
    /\ qloc = [t \in Threads |-> QIdle]
    /\ resp = [t \in Threads |-> NoResp]

\* A first start on a fresh metadata directory.
NoSeek == [duration |-> None, thumbnail |-> None, previews |-> <<>>]

FreshDirectory(files, events, requests) ==
    /\ fs \in files
    /\ clock = 4
    /\ store = EmptyMap
    /\ hashDisk = EmptyMap
    /\ videoDisk = EmptyMap
    /\ artifacts = EmptyMap
    /\ asked = [h \in Hashes |-> [score |-> 0, play_count |-> 0]]
    /\ budget = [events |-> events, requests |-> requests]
    /\ docs = [hash |-> "absent", video |-> "absent"]
    /\ ProcessStart

FirstStart(files, events, requests) ==
    /\ FreshDirectory(files, events, requests)
    /\ seek = NoSeek

Init == FirstStart(InitialFs, 0, MaxRequests)
\* two copies of one image, to be moved around
InitMoves == FirstStart({FilesAt({PathA, PathB})}, MaxEvents, MaxRequestsDuringEvents)
InitFiles == FirstStart(InitialFs, MaxFileEvents, MaxRefreshesDuringFileEvents)
InitQueries == FirstStart(InitialFs, MaxEventsDuringQueries, MaxQueryRequests)
InitRejoin == FirstStart({FilesAt(Paths)}, 0, MaxRejoinRequests)
InitFilters == FirstStart({FilesAt(Paths)}, 0, MaxFilterRequests)
\* an image, a video and a thumbnail left in the metadata area
InitScan == FirstStart({FilesAt({PathA, PathV, PathM})}, MaxScanEvents, MaxScanRefreshes)
\* two copies of one image and a text file
InitIndex == FirstStart({FilesAt({PathA, PathB, PathN})}, MaxIndexEvents, MaxIndexRequests)

(***************************************************************************)
(* The environment: files below APP_ROOT are written, deleted and renamed  *)
(* by other programs at any time. A write stamps the file with the clock   *)
(* and advances it; a rename keeps the bytes and the modification time.    *)
(***************************************************************************)
UnchangedProcess ==
    UNCHANGED <<store, HASH_CACHE, HASH_CACHE_DIRTY, hashDisk, VIDEO_INFO_CACHE,
                VIDEO_INFO_DIRTY, videoDisk, artifacts, heap, MEDIA_CACHE,
                MEDIA_LOOKUP, SCAN_METADATA, booted, pc, rloc, mloc, qloc, resp,
                asked, docs, seek>>

FsWrite(p, c) ==
    /\ budget.events > 0
    /\ fs' = Put(fs, p, [content |-> c, mtime |-> clock])
    /\ clock' = clock + 1
    /\ budget' = [budget EXCEPT !.events = @ - 1]
    /\ UnchangedProcess

FsDelete(p) ==
    /\ budget.events > 0
    /\ p \in DOMAIN fs
    /\ fs' = Restrict(fs, DOMAIN fs \ {p})
    /\ budget' = [budget EXCEPT !.events = @ - 1]
    /\ UNCHANGED clock
    /\ UnchangedProcess

FsRename(p, q) ==
    /\ budget.events > 0
    /\ p \in DOMAIN fs
    /\ p # q
    /\ fs' = Put(Restrict(fs, DOMAIN fs \ {p, q}), q, fs[p])
    /\ budget' = [budget EXCEPT !.events = @ - 1]
    /\ UNCHANGED clock
    /\ UnchangedProcess

\* The process is stopped at any point and started again: what is on disk
\* stays (files, ratings table, cache documents, artifacts), the rest is
\* rebuilt by the module's import.
Restart ==
    /\ budget.events > 0
    /\ budget' = [budget EXCEPT !.events = @ - 1]
    /\ HASH_CACHE' = LoadJson(docs.hash, hashDisk)
    /\ HASH_CACHE_DIRTY' = FALSE
    /\ VIDEO_INFO_CACHE' = LoadJson(docs.video, videoDisk)
    /\ VIDEO_INFO_DIRTY' = FALSE
    /\ heap' = EmptyMap
    /\ MEDIA_CACHE' = <<>>
    /\ MEDIA_LOOKUP' = EmptyMap
    /\ SCAN_METADATA' = EmptyMap
    /\ booted' = FALSE
    /\ pc' = [t \in Threads |-> IF t = "t1" THEN "r_fetch" ELSE "idle"]
    /\ rloc' = [t \in Threads |-> RIdle]
    /\ mloc' = [t \in Threads |-> MIdle]
    /\ qloc' = [t \in Threads |-> QIdle]
    /\ resp' = [t \in Threads |-> NoResp]
    /\ UNCHANGED <<fs, clock, store, hashDisk, videoDisk, artifacts, asked, docs, seek>>

\* While the process is stopped the cache documents are damaged or removed
\* (hk, vk say what is at each path afterwards; "map" leaves the document as
\* it is), then the process is started. Documents change only here and in
\* the dumps, so docs also tells what load_json returned: the module-level
\* HASH_CACHE / VIDEO_INFO_CACHE is a dict unless the document is a list.
RestartOnDocuments(hk, vk) ==
    /\ budget.events > 0
    /\ budget' = [budget EXCEPT !.events = @ - 1]
    /\ <<hk, vk>> # <<"map", "map">>
    /\ LET hkind == IF hk = "map" THEN docs.hash ELSE hk
           vkind == IF vk = "map" THEN docs.video ELSE vk
           hdoc == IF hk = "map" THEN hashDisk ELSE <<>>
           vdoc == IF vk = "map" THEN videoDisk ELSE <<>>
       IN  /\ docs' = [hash |-> hkind, video |-> vkind]
           /\ hashDisk' = hdoc
           /\ videoDisk' = vdoc
           /\ HASH_CACHE' = LoadJson(hkind, hdoc)
           /\ VIDEO_INFO_CACHE' = LoadJson(vkind, vdoc)
    /\ HASH_CACHE_DIRTY' = FALSE
    /\ VIDEO_INFO_DIRTY' = FALSE
    /\ heap' = EmptyMap
    /\ MEDIA_CACHE' = <<>>
    /\ MEDIA_LOOKUP' = EmptyMap
    /\ SCAN_METADATA' = EmptyMap
    /\ booted' = FALSE
    /\ pc' = [t \in Threads |-> IF t = "t1" THEN "r_fetch" ELSE "idle"]
    /\ rloc' = [t \in Threads |-> RIdle]
    /\ mloc' = [t \in Threads |-> MIdle]
    /\ qloc' = [t \in Threads |-> QIdle]
    /\ resp' = [t \in Threads |-> NoResp]
    /\ UNCHANGED <<fs, clock, store, artifacts, asked, seek>>

(***************************************************************************)
(* Garbage collection: an action that drops references ends with           *)
(* heap' = Collect(h), which keeps the objects still referenced.           *)
(***************************************************************************)
LiveOf(mc, ml, rl, ql) ==
    Range(mc) \cup {ml[k] : k \in DOMAIN ml}
    \cup UNION {Range(rl[t].new_entries) : t \in Threads}
    \cup UNION {Range(ql[t].entries) \cup Range(ql[t].filtered) : t \in Threads}

Collect(h) ==
    Restrict(h, DOMAIN h \cap LiveOf(MEDIA_CACHE', MEDIA_LOOKUP', rloc', qloc'))

(***************************************************************************)
(* Directory scanner.                                                      *)
(***************************************************************************)
\* filename.startswith(".") for the names of the universe
StartsWithDot(name) == name \in {".h.jpg", ".git"}

\* a variant that skips the files of the metadata directory itself only
InMetadataRootOnly(p) == p.dirs = <<"_metadata">>

\* METADATA_ROOT in root_path.parents or root_path == METADATA_ROOT
InMetadataArea(p) == Len(p.dirs) > 0 /\ p.dirs[1] = "_metadata"

\* the order of str on the path components of the universe
NameRank(name) ==
    CASE name = ".git" -> 1 [] name = ".h.jpg" -> 2 [] name = "_metadata" -> 3
      [] name = "_minus" -> 4 [] name = "a.jpg" -> 5 [] name = "b.JPG" -> 6
      [] name = "c.jpg" -> 7 [] name = "n.txt" -> 8 [] name = "sub" -> 9
      [] name = "t.jpg" -> 10 [] name = "thumbnails" -> 11 [] name = "v.mp4" -> 12
      [] name = "w.mp4" -> 13 [] OTHER -> 14

\* the order of Path: the component lists compared as tuples
RECURSIVE PartsBefore(_, _)
PartsBefore(a, b) ==
    IF a = <<>> THEN TRUE
    ELSE IF b = <<>> THEN FALSE
    ELSE IF Head(a) = Head(b) THEN PartsBefore(Tail(a), Tail(b))
    ELSE NameRank(Head(a)) < NameRank(Head(b))

\* entries.sort()
RECURSIVE SortPaths(_)
SortPaths(S) ==
    IF S = {} THEN <<>>
    ELSE LET m == CHOOSE p \in S : \A q \in S :
                      PartsBefore(p.dirs \o <<p.name>>, q.dirs \o <<q.name>>)
         IN  <<m>> \o SortPaths(S \ {m})

\* a variant of the scanner that lists files of every extension
IterMediaFilesOfAnyExtension ==
    SortPaths({p \in DOMAIN fs : ~InMetadataArea(p) /\ ~StartsWithDot(p.name)})

IterMediaFiles ==
    SortPaths({p \in DOMAIN fs :
        /\ ~InMetadataArea(p)
        /\ ~StartsWithDot(p.name)
        /\ SuffixLower(p.name) \in MEDIA_EXTENSIONS})

MediaType(p) == IF SuffixLower(p.name) \in VIDEO_EXTENSIONS THEN "video" ELSE "image"

(***************************************************************************)
(* Content hasher.                                                         *)
(***************************************************************************)
\* a variant that trusts any cached entry of the path
HashCacheHitAnySignature(p) == CacheKey(p) \in DOMAIN HASH_CACHE

\* cached and cached.get("sig") == signature
HashCacheHit(p) ==
    /\ CacheKey(p) \in DOMAIN HASH_CACHE
    /\ HASH_CACHE[CacheKey(p)].sig = Signature(fs[p])

\* the identity compute_file_hash returns for an existing file
ComputeFileHash(p) ==
    IF HashCacheHit(p) THEN HASH_CACHE[CacheKey(p)].hash
    ELSE Sha256Hex(fs[p].content)

(***************************************************************************)
(* Duration prober. ffprobe's report for a file with these bytes.          *)
(***************************************************************************)
ContainerDuration(c) == IF c = "X" THEN 3 ELSE 25

\* a variant that never finds a cached duration
DurationCacheHitNever(h) == FALSE

\* cached and "duration" in cached
DurationCacheHit(h) == h \in DOMAIN VIDEO_INFO_CACHE

(***************************************************************************)
(* Frame offsets. A duration is a number of tenths of a second; offsets are *)
(* counted in ticks of 1/900 second, in which duration * 0.1, duration / 9, *)
(* 0.1 and 0.5 are the whole numbers 9d, 10d, 90 and 450 for a duration of  *)
(* d tenths.                                                               *)
(***************************************************************************)
TicksPerSecond == 900
DurationInputs == {None} \cup {Some(d) : d \in 0..MaxDurationTenths}
Max(a, b) == IF a >= b THEN a ELSE b
\* the duration in ticks
Ticks(d) == 90 * d

\* compute_thumbnail_offset
ComputeThumbnailOffset(duration) ==
    IF duration # None /\ duration[1] # 0 /\ duration[1] > 0
                       /\ Ticks(duration[1]) < PREVIEW_START_SECONDS * TicksPerSecond
    THEN Max(9 * duration[1], 0)
    ELSE PREVIEW_START_SECONDS * TicksPerSecond

\* a variant whose step is the duration divided by VIDEO_PREVIEW_COUNT
\* (rounded down to a tick)
ComputePreviewOffsetsByCount(duration) ==
    IF duration = None \/ duration[1] = 0 \/ duration[1] <= 0
    THEN [index \in 1..VIDEO_PREVIEW_COUNT |->
             (PREVIEW_START_SECONDS + PREVIEW_STEP_SECONDS * (index - 1)) * TicksPerSecond]
    ELSE LET step == Max(Ticks(duration[1]) \div VIDEO_PREVIEW_COUNT, 90)
             max_time == Max(Ticks(duration[1]) - 450, 0)
         IN  [index \in 1..VIDEO_PREVIEW_COUNT |->
                 IF step * index > max_time /\ max_time > 0
                 THEN max_time ELSE step * index]

\* compute_preview_offsets
ComputePreviewOffsets(duration) ==
    IF duration = None \/ duration[1] = 0 \/ duration[1] <= 0
    THEN [index \in 1..VIDEO_PREVIEW_COUNT |->
             (PREVIEW_START_SECONDS + PREVIEW_STEP_SECONDS * (index - 1)) * TicksPerSecond]
    ELSE LET step == Max(10 * duration[1], 90)
             max_time == Max(Ticks(duration[1]) - 450, 0)
         IN  [index \in 1..VIDEO_PREVIEW_COUNT |->
                 IF step * index > max_time /\ max_time > 0
                 THEN max_time ELSE step * index]

\* ensure_thumbnails computes the offset of the thumbnail's frame
ThumbnailOffsetStep ==
    /\ seek.thumbnail = None
    /\ seek' = [seek EXCEPT !.thumbnail = Some(ComputeThumbnailOffset(seek.duration))]
    /\ UNCHANGED <<fs, clock, store, HASH_CACHE, HASH_CACHE_DIRTY, hashDisk,
                   VIDEO_INFO_CACHE, VIDEO_INFO_DIRTY, videoDisk, artifacts, heap,
                   MEDIA_CACHE, MEDIA_LOOKUP, SCAN_METADATA, booted, pc, rloc, mloc,
                   qloc, resp, asked, docs, budget>>

\* ensure_thumbnails computes the offsets of the preview frames
PreviewOffsetsStep ==
    /\ seek.previews = <<>>
    /\ seek' = [seek EXCEPT !.previews = ComputePreviewOffsets(seek.duration)]
    /\ UNCHANGED <<fs, clock, store, HASH_CACHE, HASH_CACHE_DIRTY, hashDisk,
                   VIDEO_INFO_CACHE, VIDEO_INFO_DIRTY, videoDisk, artifacts, heap,
                   MEDIA_CACHE, MEDIA_LOOKUP, SCAN_METADATA, booted, pc, rloc, mloc,
                   qloc, resp, asked, docs, budget>>

(***************************************************************************)
(* Artifact generator.                                                     *)
(***************************************************************************)
PreviewNames(h) == [i \in 1..VIDEO_PREVIEW_COUNT |-> PreviewName(h, i - 1)]

\* a variant that tries again when the file is a zero-length sentinel
NeedsGenerationOrEmpty(a) == a \notin DOMAIN artifacts \/ artifacts[a] = "empty"

\* not thumb_path.exists() / not preview_path.exists()
NeedsGeneration(a) == a \notin DOMAIN artifacts

\* the artifacts ensure_thumbnails runs the external tool for
ToGenerate(h, is_video) ==
    {a \in {ThumbName(h)} \cup (IF is_video THEN Range(PreviewNames(h)) ELSE {}) :
        NeedsGeneration(a)}

\* Which of the tool's runs of one call succeed: the tool works for this
\* source during the call, or it does not (not installed, corrupt source,
\* time-out).
ToolOutcomes(runs) == {runs, {}}

(***************************************************************************)
(* refresh_media_index, step by step. An exception leaves the function at  *)
(* the step that raises it: api_refresh answers 500, the import-time call  *)
(* ends the process.                                                       *)
(***************************************************************************)
Raise(t, error) ==
    /\ rloc' = [rloc EXCEPT ![t] = RIdle]
    /\ pc' = [pc EXCEPT ![t] = IF booted THEN "idle" ELSE "crashed"]
    /\ resp' = [resp EXCEPT ![t] = [kind |-> IF booted THEN rloc[t].caller ELSE "boot",
                                    status |-> 500, error |-> error]]
    /\ UNCHANGED <<MEDIA_CACHE, MEDIA_LOOKUP, qloc>>
    /\ heap' = Collect(heap)

CurrentPath(t) == rloc[t].files[rloc[t].idx]

\* metadata_map = fetch_metadata()
RFetch(t) ==
    /\ pc[t] = "r_fetch"
    /\ rloc' = [rloc EXCEPT ![t].metadata_map = store]
    /\ pc' = [pc EXCEPT ![t] = "r_scan"]
    /\ UNCHANGED <<fs, clock, store, HASH_CACHE, HASH_CACHE_DIRTY, hashDisk,
                   VIDEO_INFO_CACHE, VIDEO_INFO_DIRTY, videoDisk, artifacts, heap,
                   MEDIA_CACHE, MEDIA_LOOKUP, SCAN_METADATA, booted, mloc, qloc,
                   resp, budget,
                   asked, docs, seek>>

\* files = iter_media_files()
RScan(t) ==
    /\ pc[t] = "r_scan"
    /\ rloc' = [rloc EXCEPT ![t].files = IterMediaFiles, ![t].idx = 1]
    /\ pc' = [pc EXCEPT ![t] = IF IterMediaFiles = <<>> THEN "r_swap" ELSE "r_hash"]
    /\ UNCHANGED <<fs, clock, store, HASH_CACHE, HASH_CACHE_DIRTY, hashDisk,
                   VIDEO_INFO_CACHE, VIDEO_INFO_DIRTY, videoDisk, artifacts, heap,
                   MEDIA_CACHE, MEDIA_LOOKUP, SCAN_METADATA, booted, mloc, qloc,
                   resp, budget,
                   asked, docs, seek>>

\* media_hash = compute_file_hash(path)
RHash(t) ==
    /\ pc[t] = "r_hash"
    /\ LET p == CurrentPath(t) IN
       IF p \notin DOMAIN fs
       THEN /\ Raise(t, "FileNotFoundError")
            /\ UNCHANGED <<HASH_CACHE, HASH_CACHE_DIRTY>>
       ELSE IF ~IsDict(docs.hash)
       THEN \* HASH_CACHE.get: the loaded object has no such method
            /\ Raise(t, "AttributeError")
            /\ UNCHANGED <<HASH_CACHE, HASH_CACHE_DIRTY>>
       ELSE /\ rloc' = [rloc EXCEPT ![t].media_hash = Some(ComputeFileHash(p)),
                                    ![t].read = ~HashCacheHit(p)]
            /\ pc' = [pc EXCEPT ![t] = IF MediaType(p) = "video" THEN "r_duration"
                                       ELSE "r_thumbs"]
            /\ IF HashCacheHit(p)
               THEN UNCHANGED <<HASH_CACHE, HASH_CACHE_DIRTY>>
               ELSE /\ HASH_CACHE' = Put(HASH_CACHE, CacheKey(p),
                                         [sig |-> Signature(fs[p]),
                                          hash |-> Sha256Hex(fs[p].content)])
                    /\ HASH_CACHE_DIRTY' = TRUE
            /\ UNCHANGED <<heap, MEDIA_CACHE, MEDIA_LOOKUP, qloc, resp>>
    /\ UNCHANGED <<fs, clock, store, hashDisk, VIDEO_INFO_CACHE, VIDEO_INFO_DIRTY,
                   videoDisk, artifacts, SCAN_METADATA, booted, mloc, budget,
                   asked, docs, seek>>

\* get_video_duration, the cache lookup under VIDEO_INFO_LOCK
RDuration(t) ==
    /\ pc[t] = "r_duration"
    /\ LET h == rloc[t].media_hash[1] IN
       IF ~IsDict(docs.video)
       THEN \* VIDEO_INFO_CACHE.get: the loaded object has no such method
            /\ Raise(t, "AttributeError")
       ELSE IF DurationCacheHit(h)
       THEN /\ rloc' = [rloc EXCEPT ![t].duration = Some(VIDEO_INFO_CACHE[h].duration)]
            /\ pc' = [pc EXCEPT ![t] = "r_thumbs"]
            /\ UNCHANGED <<heap, resp>>
       ELSE /\ pc' = [pc EXCEPT ![t] = "r_probe"]
            /\ UNCHANGED <<rloc, heap, resp>>
    /\ UNCHANGED <<fs, clock, store, HASH_CACHE, HASH_CACHE_DIRTY, hashDisk,
                   VIDEO_INFO_CACHE, VIDEO_INFO_DIRTY, videoDisk, artifacts,
                   MEDIA_CACHE, MEDIA_LOOKUP, SCAN_METADATA, booted, mloc, qloc,
                   budget,
                   asked, docs, seek>>

\* get_video_duration, probe_video_duration and the cache update under the lock
RProbe(t) ==
    /\ pc[t] = "r_probe"
    /\ LET p == CurrentPath(t)
           h == rloc[t].media_hash[1]
       IN  \E ok \in BOOLEAN :
             LET duration == IF ok /\ p \in DOMAIN fs
                             THEN Some(ContainerDuration(fs[p].content))
                             ELSE None
             IN  /\ rloc' = [rloc EXCEPT ![t].duration = duration, ![t].probed = TRUE]
                 /\ IF duration # None
                    THEN /\ VIDEO_INFO_CACHE' =
                               Put(VIDEO_INFO_CACHE, h, [duration |-> duration[1]])
                         /\ VIDEO_INFO_DIRTY' = TRUE
                    ELSE UNCHANGED <<VIDEO_INFO_CACHE, VIDEO_INFO_DIRTY>>
    /\ pc' = [pc EXCEPT ![t] = "r_thumbs"]
    /\ UNCHANGED <<fs, clock, store, HASH_CACHE, HASH_CACHE_DIRTY, hashDisk,
                   videoDisk, artifacts, heap, MEDIA_CACHE, MEDIA_LOOKUP,
                   SCAN_METADATA, booted, mloc, qloc, resp, budget,
                   asked, docs, seek>>

\* thumbs = ensure_thumbnails(path, media_hash, media_type == "video", duration)
RThumbs(t) ==
    /\ pc[t] = "r_thumbs"
    /\ LET p == CurrentPath(t)
           h == rloc[t].media_hash[1]
           is_video == MediaType(p) = "video"
           runs == ToGenerate(h, is_video)
           done == [rloc EXCEPT ![t].thumbs = Some([thumbnail |-> ThumbName(h),
                                                    previews |-> IF is_video
                                                                 THEN PreviewNames(h)
                                                                 ELSE <<>>]),
                                ![t].invoked = runs]
       IN  \E ok \in ToolOutcomes(runs), wrote \in BOOLEAN :
             IF is_video
             THEN \* run_ffmpeg is True when the tool exits with status 0,
                  \* whether it wrote its output (wrote) or found no frame to
                  \* encode at the offset; a failed run leaves a zero-length file
                  LET succeeded == IF p \in DOMAIN fs THEN ok ELSE {}
                      written == IF wrote THEN succeeded ELSE {}
                  IN
                  /\ artifacts' = [a \in written \cup (runs \ succeeded) |->
                                      IF a \in written THEN "data" ELSE "empty"]
                                  @@ artifacts
                  /\ rloc' = done
                  /\ pc' = [pc EXCEPT ![t] = "r_entry"]
                  /\ UNCHANGED <<heap, MEDIA_CACHE, MEDIA_LOOKUP, qloc, resp>>
             ELSE IF runs = {}
             THEN /\ rloc' = done
                  /\ pc' = [pc EXCEPT ![t] = "r_entry"]
                  /\ UNCHANGED <<artifacts, heap, MEDIA_CACHE, MEDIA_LOOKUP, qloc, resp>>
             ELSE IF p \notin DOMAIN fs
             THEN /\ Raise(t, "FileNotFoundError")
                  /\ UNCHANGED artifacts
             ELSE IF ok = runs
             THEN /\ artifacts' = [a \in runs |-> "data"] @@ artifacts
                  /\ rloc' = done
                  /\ pc' = [pc EXCEPT ![t] = "r_entry"]
                  /\ UNCHANGED <<heap, MEDIA_CACHE, MEDIA_LOOKUP, qloc, resp>>
             ELSE \* generate_image_thumbnail raises, nothing catches it
                  /\ Raise(t, "UnidentifiedImageError")
                  /\ UNCHANGED artifacts
    /\ UNCHANGED <<fs, clock, store, HASH_CACHE, HASH_CACHE_DIRTY, hashDisk,
                   VIDEO_INFO_CACHE, VIDEO_INFO_DIRTY, videoDisk, SCAN_METADATA,
                   booted, mloc, budget,
                   asked, docs, seek>>

\* a variant that joins the ratings by path instead of by identity
NewEntryJoinedByPath(t, p) ==
    LET metadata == Get(rloc[t].metadata_map, CacheKey(p),
                        [score |-> 0, play_count |-> 0])
    IN  [relative_path |-> RelativePosix(p),
         name |-> p.name,
         media_hash |-> rloc[t].media_hash[1],
         media_type |-> MediaType(p),
         size |-> Size(fs[p].content),
         modified |-> fs[p].mtime,
         thumbnail_name |-> rloc[t].thumbs[1].thumbnail,
         preview_names |-> IF MediaType(p) = "video" THEN rloc[t].thumbs[1].previews
                           ELSE <<>>,
         rating |-> metadata.score,
         duration |-> rloc[t].duration,
         play_count |-> metadata.play_count]

\* a variant that keeps the rating and play count the index shows for the path
NewEntryKeepingShownValues(t, p) ==
    LET rel == RelativePosix(p)
        metadata == IF rel \in DOMAIN MEDIA_LOOKUP
                    THEN [score |-> heap[MEDIA_LOOKUP[rel]].rating,
                          play_count |-> heap[MEDIA_LOOKUP[rel]].play_count]
                    ELSE Get(rloc[t].metadata_map, rloc[t].media_hash[1],
                             [score |-> 0, play_count |-> 0])
    IN  [relative_path |-> rel,
         name |-> p.name,
         media_hash |-> rloc[t].media_hash[1],
         media_type |-> MediaType(p),
         size |-> Size(fs[p].content),
         modified |-> fs[p].mtime,
         thumbnail_name |-> rloc[t].thumbs[1].thumbnail,
         preview_names |-> IF MediaType(p) = "video" THEN rloc[t].thumbs[1].previews
                           ELSE <<>>,
         rating |-> metadata.score,
         duration |-> rloc[t].duration,
         play_count |-> metadata.play_count]

\* stat = path.stat(); entry = MediaEntry(...); new_entries.append(entry)
NewEntry(t, p) ==
    LET metadata == Get(rloc[t].metadata_map, rloc[t].media_hash[1],
                        [score |-> 0, play_count |-> 0])
    IN  [relative_path |-> RelativePosix(p),
         name |-> p.name,
         media_hash |-> rloc[t].media_hash[1],
         media_type |-> MediaType(p),
         size |-> Size(fs[p].content),
         modified |-> fs[p].mtime,
         thumbnail_name |-> rloc[t].thumbs[1].thumbnail,
         preview_names |-> IF MediaType(p) = "video" THEN rloc[t].thumbs[1].previews
                           ELSE <<>>,
         rating |-> metadata.score,
         duration |-> rloc[t].duration,
         play_count |-> metadata.play_count]

REntry(t) ==
    /\ pc[t] = "r_entry"
    /\ LET p == CurrentPath(t) IN
       IF p \notin DOMAIN fs
       THEN Raise(t, "FileNotFoundError")
       ELSE LET id == FreshId(heap)
                last == rloc[t].idx = Len(rloc[t].files)
            IN  /\ heap' = Put(heap, id, NewEntry(t, p))
                /\ rloc' = [rloc EXCEPT ![t].new_entries = Append(@, id),
                                        ![t].idx = @ + 1,
                                        ![t].media_hash = None,
                                        ![t].duration = None,
                                        ![t].thumbs = None,
                                        ![t].read = FALSE,
                                        ![t].probed = FALSE,
                                        ![t].invoked = {}]
                /\ pc' = [pc EXCEPT ![t] = IF last THEN "r_swap" ELSE "r_hash"]
                /\ UNCHANGED <<MEDIA_CACHE, MEDIA_LOOKUP, qloc, resp>>
    /\ UNCHANGED <<fs, clock, store, HASH_CACHE, HASH_CACHE_DIRTY, hashDisk,
                   VIDEO_INFO_CACHE, VIDEO_INFO_DIRTY, videoDisk, artifacts,
                   SCAN_METADATA, booted, mloc, budget,
                   asked, docs, seek>>

\* a variant that leaves the last entry of the list out of the lookup
LookupOfAllButLast(list, h) ==
    [k \in {h[list[i]].relative_path : i \in 1..(Len(list) - 1)} |->
        CHOOSE id \in Range(list) : h[id].relative_path = k]

RECURSIVE LookupOf(_, _)
\* for entry in MEDIA_CACHE: MEDIA_LOOKUP[entry.relative_path] = entry
LookupOf(list, h) ==
    IF list = <<>> THEN EmptyMap
    ELSE LET n == Len(list)
         IN  Put(LookupOf(SubSeq(list, 1, n - 1), h), h[list[n]].relative_path, list[n])

CountType(list, h, type) == Cardinality({i \in DOMAIN list : h[list[i]].media_type = type})

\* with MEDIA_LOCK: the swap of list, lookup and counters
RSwap(t) ==
    /\ pc[t] = "r_swap"
    /\ MEDIA_CACHE' = rloc[t].new_entries
    /\ MEDIA_LOOKUP' = LookupOf(rloc[t].new_entries, heap)
    /\ SCAN_METADATA' = [lastScan |-> clock,
                         total |-> Len(rloc[t].new_entries),
                         videos |-> CountType(rloc[t].new_entries, heap, "video"),
                         images |-> CountType(rloc[t].new_entries, heap, "image")]
    /\ pc' = [pc EXCEPT ![t] = "r_flush_hash"]
    /\ UNCHANGED <<rloc, qloc>>
    /\ heap' = Collect(heap)
    /\ UNCHANGED <<fs, clock, store, HASH_CACHE, HASH_CACHE_DIRTY, hashDisk,
                   VIDEO_INFO_CACHE, VIDEO_INFO_DIRTY, videoDisk, artifacts,
                   booted, mloc, resp, budget,
                   asked, docs, seek>>

\* flush_hash_cache: the unlocked test of the dirty flag
RFlushHash(t) ==
    /\ pc[t] = "r_flush_hash"
    /\ pc' = [pc EXCEPT ![t] = IF HASH_CACHE_DIRTY THEN "r_dump_hash" ELSE "r_flush_video"]
    /\ UNCHANGED <<fs, clock, store, HASH_CACHE, HASH_CACHE_DIRTY, hashDisk,
                   VIDEO_INFO_CACHE, VIDEO_INFO_DIRTY, videoDisk, artifacts, heap,
                   MEDIA_CACHE, MEDIA_LOOKUP, SCAN_METADATA, booted, rloc, mloc,
                   qloc, resp, budget,
                   asked, docs, seek>>

\* a variant that clears the flag without writing the document
RDumpHashClearingOnly(t) ==
    /\ pc[t] = "r_dump_hash"
    /\ HASH_CACHE_DIRTY' = FALSE
    /\ pc' = [pc EXCEPT ![t] = "r_flush_video"]
    /\ UNCHANGED <<fs, clock, store, HASH_CACHE, VIDEO_INFO_CACHE, VIDEO_INFO_DIRTY,
                   hashDisk, videoDisk, artifacts, heap, MEDIA_CACHE, MEDIA_LOOKUP,
                   SCAN_METADATA, booted, rloc, mloc, qloc, resp, budget,
                   asked, docs, seek>>

\* flush_hash_cache: with HASH_CACHE_LOCK, dump and clear the flag
RDumpHash(t) ==
    /\ pc[t] = "r_dump_hash"
    /\ hashDisk' = HASH_CACHE
    /\ docs' = [docs EXCEPT !.hash = "map"]
    /\ HASH_CACHE_DIRTY' = FALSE
    /\ pc' = [pc EXCEPT ![t] = "r_flush_video"]
    /\ UNCHANGED <<fs, clock, store, HASH_CACHE, VIDEO_INFO_CACHE, VIDEO_INFO_DIRTY,
                   videoDisk, artifacts, heap, MEDIA_CACHE, MEDIA_LOOKUP,
                   SCAN_METADATA, booted, rloc, mloc, qloc, resp, budget,
                   asked, seek>>

\* flush_video_info_cache: the unlocked test of the dirty flag
RFlushVideo(t) ==
    /\ pc[t] = "r_flush_video"
    /\ pc' = [pc EXCEPT ![t] = IF VIDEO_INFO_DIRTY THEN "r_dump_video" ELSE "r_return"]
    /\ UNCHANGED <<fs, clock, store, HASH_CACHE, HASH_CACHE_DIRTY, hashDisk,
                   VIDEO_INFO_CACHE, VIDEO_INFO_DIRTY, videoDisk, artifacts, heap,
                   MEDIA_CACHE, MEDIA_LOOKUP, SCAN_METADATA, booted, rloc, mloc,
                   qloc, resp, budget,
                   asked, docs, seek>>

\* flush_video_info_cache: with VIDEO_INFO_LOCK, dump and clear the flag
RDumpVideo(t) ==
    /\ pc[t] = "r_dump_video"
    /\ videoDisk' = VIDEO_INFO_CACHE
    /\ docs' = [docs EXCEPT !.video = "map"]
    /\ VIDEO_INFO_DIRTY' = FALSE
    /\ pc' = [pc EXCEPT ![t] = "r_return"]
    /\ UNCHANGED <<fs, clock, store, HASH_CACHE, HASH_CACHE_DIRTY, hashDisk,
                   VIDEO_INFO_CACHE, artifacts, heap, MEDIA_CACHE, MEDIA_LOOKUP,
                   SCAN_METADATA, booted, rloc, mloc, qloc, resp, budget,
                   asked, seek>>

\* the statistics refresh_media_index returns; the import-time call then lets
\* the server start, api_refresh answers with them
RReturn(t) ==
    /\ pc[t] = "r_return"
    /\ resp' = [resp EXCEPT ![t] =
                   IF rloc[t].caller = "move"
                   THEN \* api_move_negative answers with what it moved
                        [kind |-> "move", status |-> 200,
                         moved |-> Len(rloc[t].moved_files),
                         failed |-> Len(rloc[t].failed_files),
                         moved_files |-> rloc[t].moved_files,
                         failed_files |-> rloc[t].failed_files]
                   ELSE [kind |-> IF booted THEN "refresh" ELSE "boot",
                         status |-> 200,
                         stats |-> [total |-> Len(rloc[t].new_entries),
                                    videos |-> SCAN_METADATA.videos,
                                    images |-> SCAN_METADATA.images]]]
    /\ booted' = TRUE
    /\ rloc' = [rloc EXCEPT ![t] = RIdle]
    /\ pc' = [pc EXCEPT ![t] = "idle"]
    /\ UNCHANGED <<MEDIA_CACHE, MEDIA_LOOKUP, qloc>>
    /\ heap' = Collect(heap)
    /\ UNCHANGED <<fs, clock, store, HASH_CACHE, HASH_CACHE_DIRTY, hashDisk,
                   VIDEO_INFO_CACHE, VIDEO_INFO_DIRTY, videoDisk, artifacts,
                   SCAN_METADATA, mloc, budget,
                   asked, docs, seek>>

(***************************************************************************)
(* Request handlers. A request starts on an idle thread of the running     *)
(* server.                                                                 *)
(***************************************************************************)
CanStart(t) == booted /\ pc[t] = "idle" /\ budget.requests > 0
Started == [budget EXCEPT !.requests = @ - 1]

\* POST /api/refresh
ApiRefresh(t) ==
    /\ CanStart(t)
    /\ budget' = Started
    /\ pc' = [pc EXCEPT ![t] = "r_fetch"]
    /\ resp' = [resp EXCEPT ![t] = NoResp]
    /\ UNCHANGED <<fs, clock, store, HASH_CACHE, HASH_CACHE_DIRTY, hashDisk,
                   VIDEO_INFO_CACHE, VIDEO_INFO_DIRTY, videoDisk, artifacts, heap,
                   MEDIA_CACHE, MEDIA_LOOKUP, SCAN_METADATA, booted, rloc, mloc,
                   qloc,
                   asked, docs, seek>>

(***************************************************************************)
(* POST /api/move-negative.                                                *)
(***************************************************************************)
\* MINUS_DIR / entry.relative_path
MinusOf(rel) == [dirs |-> <<"_minus">> \o rel.dirs, name |-> rel.name]

\* the loop over negative_entries: a missing source fails, shutil.move renames
\* (replacing a file at the destination) or raises, which is caught
RECURSIVE MoveLoop(_, _, _)
MoveLoop(rels, acc, ok) ==
    IF rels = <<>> THEN acc
    ELSE LET rel == Head(rels)
             next == IF rel \notin DOMAIN acc.fs \/ ~ok
                     THEN [acc EXCEPT !.failed = Append(@, rel)]
                     ELSE [fs |-> Put(Restrict(acc.fs, DOMAIN acc.fs \ {rel, MinusOf(rel)}),
                                      MinusOf(rel), acc.fs[rel]),
                           moved |-> Append(acc.moved, rel),
                           failed |-> acc.failed]
         IN  MoveLoop(Tail(rels), next, ok)

\* api_move_negative: with MEDIA_LOCK: the entries rated below 0
ApiMoveNegative(t) ==
    /\ CanStart(t)
    /\ budget' = Started
    /\ qloc' = [qloc EXCEPT ![t] =
                   [QIdle EXCEPT !.entries =
                       SeqFilter(MEDIA_CACHE,
                                 {id \in Range(MEDIA_CACHE) : heap[id].rating < 0})]]
    /\ pc' = [pc EXCEPT ![t] = "move_files"]
    /\ resp' = [resp EXCEPT ![t] = NoResp]
    /\ UNCHANGED <<fs, clock, store, HASH_CACHE, HASH_CACHE_DIRTY, hashDisk,
                   VIDEO_INFO_CACHE, VIDEO_INFO_DIRTY, videoDisk, artifacts, heap,
                   MEDIA_CACHE, MEDIA_LOOKUP, SCAN_METADATA, booted, rloc, mloc,
                   asked, docs, seek>>

\* api_move_negative: the moves, then the call of refresh_media_index()
MoveNegativeFiles(t) ==
    /\ pc[t] = "move_files"
    /\ \E ok \in BOOLEAN :
          LET rels == [i \in DOMAIN qloc[t].entries |->
                          heap[qloc[t].entries[i]].relative_path]
              done == MoveLoop(rels, [fs |-> fs, moved |-> <<>>, failed |-> <<>>], ok)
          IN  /\ fs' = done.fs
              /\ rloc' = [rloc EXCEPT ![t] = [RIdle EXCEPT !.caller = "move",
                                                           !.moved_files = done.moved,
                                                           !.failed_files = done.failed]]
    /\ qloc' = [qloc EXCEPT ![t] = QIdle]
    /\ pc' = [pc EXCEPT ![t] = "r_fetch"]
    /\ UNCHANGED <<MEDIA_CACHE, MEDIA_LOOKUP>>
    /\ heap' = Collect(heap)
    /\ UNCHANGED <<clock, store, HASH_CACHE, HASH_CACHE_DIRTY, hashDisk,
                   VIDEO_INFO_CACHE, VIDEO_INFO_DIRTY, videoDisk, artifacts,
                   SCAN_METADATA, booted, mloc, resp, budget,
                   asked, docs, seek>>

(***************************************************************************)
(* POST /api/rate and POST /api/play. The JSON body's "delta" is any JSON  *)
(* value: absent, a number (kept here in tenths, so that 15 is 1.5) or a   *)
(* value int() cannot convert.                                             *)
(***************************************************************************)
DeltaTenths == {-20, -15, -10, 0, 10, 15, 20}
DeltaInputs ==
    {[kind |-> "missing", tenths |-> 0], [kind |-> "text", tenths |-> 0]}
    \cup {[kind |-> "number", tenths |-> n] : n \in DeltaTenths}
HashInputs == {None} \cup {Some(h) : h \in Hashes}

\* int(x) of a number: truncation toward zero
PyInt(tenths) == IF tenths >= 0 THEN tenths \div 10 ELSE -((-tenths) \div 10)

\* int(payload.get("delta", 0))
ParseDelta(raw) == IF raw.kind = "missing" THEN 0 ELSE PyInt(raw.tenths)

\* media_hash is None or delta not in (1, -1)
RateRejected(hash, delta) == hash = None \/ delta \notin {1, -1}

\* a variant that counts every vote of a rated file as +1
NewScoreIgnoringSign(hit, delta) == IF hit # None THEN hit[1] + 1 ELSE delta

\* update_rating: score = hit[0] + delta if hit else delta
NewScore(hit, delta) == IF hit # None THEN hit[1] + delta ELSE delta

\* increment_play_count: count = hit[0] + 1 if hit else 1
NewCount(hit) == IF hit # None THEN hit[1] + 1 ELSE 1

\* a variant that stops at the first entry of the identity
PatchRatingFirstOnly(h, hash, score) ==
    LET hits == {i \in DOMAIN MEDIA_CACHE : h[MEDIA_CACHE[i]].media_hash = hash}
    IN  [id \in DOMAIN h |->
            IF /\ hits # {}
               /\ id = MEDIA_CACHE[CHOOSE i \in hits : \A j \in hits : i <= j]
            THEN [h[id] EXCEPT !.rating = score] ELSE h[id]]

\* for entry in MEDIA_CACHE: if entry.media_hash == media_hash: entry.rating = new_score
PatchRating(h, hash, score) ==
    [id \in DOMAIN h |->
        IF id \in Range(MEDIA_CACHE) /\ h[id].media_hash = hash
        THEN [h[id] EXCEPT !.rating = score] ELSE h[id]]

\* a variant that also clears the rating of the entries it patches
PatchPlayCountClearingRating(h, hash, count) ==
    [id \in DOMAIN h |->
        IF id \in Range(MEDIA_CACHE) /\ h[id].media_hash = hash
        THEN [h[id] EXCEPT !.play_count = count, !.rating = 0] ELSE h[id]]

\* for entry in MEDIA_CACHE: if entry.media_hash == media_hash: entry.play_count = new_count
PatchPlayCount(h, hash, count) ==
    [id \in DOMAIN h |->
        IF id \in Range(MEDIA_CACHE) /\ h[id].media_hash = hash
        THEN [h[id] EXCEPT !.play_count = count] ELSE h[id]]

\* api_rate up to the call of update_rating: parse and validate the body
ApiRate(t, hash, raw) ==
    /\ CanStart(t)
    /\ budget' = Started
    /\ IF raw.kind = "text"
       THEN \* int() raises, the server answers 500
            /\ resp' = [resp EXCEPT ![t] = [kind |-> "rate", status |-> 500,
                                            error |-> "ValueError"]]
            /\ UNCHANGED <<pc, mloc, asked>>
       ELSE IF RateRejected(hash, ParseDelta(raw))
       THEN /\ resp' = [resp EXCEPT ![t] = [kind |-> "rate", status |-> 400]]
            /\ UNCHANGED <<pc, mloc, asked>>
       ELSE /\ mloc' = [mloc EXCEPT ![t] = [MIdle EXCEPT !.hash = hash,
                                                         !.raw = Some(raw),
                                                         !.delta = ParseDelta(raw)]]
            /\ pc' = [pc EXCEPT ![t] = "rate_read"]
            /\ resp' = [resp EXCEPT ![t] = NoResp]
            /\ asked' = [asked EXCEPT ![hash[1]].score = @ + ParseDelta(raw)]
    /\ UNCHANGED <<fs, clock, store, HASH_CACHE, HASH_CACHE_DIRTY, hashDisk,
                   VIDEO_INFO_CACHE, VIDEO_INFO_DIRTY, videoDisk, artifacts, heap,
                   MEDIA_CACHE, MEDIA_LOOKUP, SCAN_METADATA, booted, rloc, qloc,
                   docs, seek>>

\* update_rating: SELECT score FROM ratings WHERE hash=?
RateRead(t) ==
    /\ pc[t] = "rate_read"
    /\ LET h == mloc[t].hash[1] IN
       mloc' = [mloc EXCEPT ![t].hit = IF h \in DOMAIN store
                                       THEN Some(store[h].score) ELSE None]
    /\ pc' = [pc EXCEPT ![t] = "rate_write"]
    /\ UNCHANGED <<fs, clock, store, HASH_CACHE, HASH_CACHE_DIRTY, hashDisk,
                   VIDEO_INFO_CACHE, VIDEO_INFO_DIRTY, videoDisk, artifacts, heap,
                   MEDIA_CACHE, MEDIA_LOOKUP, SCAN_METADATA, booted, rloc, qloc,
                   resp, budget,
                   asked, docs, seek>>

\* update_rating: UPDATE or INSERT, then commit. An INSERT of a hash that
\* has a row by now violates the primary key and raises.
RateWrite(t) ==
    /\ pc[t] = "rate_write"
    /\ LET h == mloc[t].hash[1]
           score == NewScore(mloc[t].hit, mloc[t].delta)
       IN  IF mloc[t].hit = None /\ h \in DOMAIN store
           THEN /\ resp' = [resp EXCEPT ![t] = [kind |-> "rate", status |-> 500,
                                                error |-> "IntegrityError"]]
                /\ mloc' = [mloc EXCEPT ![t] = MIdle]
                /\ pc' = [pc EXCEPT ![t] = "idle"]
                /\ UNCHANGED store
           ELSE /\ store' = IF mloc[t].hit # None
                            THEN [store EXCEPT ![h].score = score]
                            ELSE Put(store, h, [score |-> score, play_count |-> 0])
                /\ mloc' = [mloc EXCEPT ![t].value = score]
                /\ pc' = [pc EXCEPT ![t] = "rate_patch"]
                /\ UNCHANGED resp
    /\ UNCHANGED <<fs, clock, HASH_CACHE, HASH_CACHE_DIRTY, hashDisk,
                   VIDEO_INFO_CACHE, VIDEO_INFO_DIRTY, videoDisk, artifacts, heap,
                   MEDIA_CACHE, MEDIA_LOOKUP, SCAN_METADATA, booted, rloc, qloc,
                   budget,
                   asked, docs, seek>>

\* api_rate: with MEDIA_LOCK patch the entries, then answer
RatePatch(t) ==
    /\ pc[t] = "rate_patch"
    /\ heap' = PatchRating(heap, mloc[t].hash[1], mloc[t].value)
    /\ resp' = [resp EXCEPT ![t] = [kind |-> "rate", status |-> 200,
                                    hash |-> mloc[t].hash[1],
                                    rating |-> mloc[t].value]]
    /\ mloc' = [mloc EXCEPT ![t] = MIdle]
    /\ pc' = [pc EXCEPT ![t] = "idle"]
    /\ UNCHANGED <<fs, clock, store, HASH_CACHE, HASH_CACHE_DIRTY, hashDisk,
                   VIDEO_INFO_CACHE, VIDEO_INFO_DIRTY, videoDisk, artifacts,
                   MEDIA_CACHE, MEDIA_LOOKUP, SCAN_METADATA, booted, rloc, qloc,
                   budget,
                   asked, docs, seek>>

\* api_play up to the call of increment_play_count
ApiPlay(t, hash) ==
    /\ CanStart(t)
    /\ budget' = Started
    /\ IF hash = None
       THEN /\ resp' = [resp EXCEPT ![t] = [kind |-> "play", status |-> 400]]
            /\ UNCHANGED <<pc, mloc, asked>>
       ELSE /\ mloc' = [mloc EXCEPT ![t] = [MIdle EXCEPT !.hash = hash]]
            /\ pc' = [pc EXCEPT ![t] = "play_read"]
            /\ resp' = [resp EXCEPT ![t] = NoResp]
            /\ asked' = [asked EXCEPT ![hash[1]].play_count = @ + 1]
    /\ UNCHANGED <<fs, clock, store, HASH_CACHE, HASH_CACHE_DIRTY, hashDisk,
                   VIDEO_INFO_CACHE, VIDEO_INFO_DIRTY, videoDisk, artifacts, heap,
                   MEDIA_CACHE, MEDIA_LOOKUP, SCAN_METADATA, booted, rloc, qloc,
                   docs, seek>>

\* increment_play_count: SELECT play_count FROM ratings WHERE hash=?
PlayRead(t) ==
    /\ pc[t] = "play_read"
    /\ LET h == mloc[t].hash[1] IN
       mloc' = [mloc EXCEPT ![t].hit = IF h \in DOMAIN store
                                       THEN Some(store[h].play_count) ELSE None]
    /\ pc' = [pc EXCEPT ![t] = "play_write"]
    /\ UNCHANGED <<fs, clock, store, HASH_CACHE, HASH_CACHE_DIRTY, hashDisk,
                   VIDEO_INFO_CACHE, VIDEO_INFO_DIRTY, videoDisk, artifacts, heap,
                   MEDIA_CACHE, MEDIA_LOOKUP, SCAN_METADATA, booted, rloc, qloc,
                   resp, budget,
                   asked, docs, seek>>

\* increment_play_count: UPDATE or INSERT, then commit
PlayWrite(t) ==
    /\ pc[t] = "play_write"
    /\ LET h == mloc[t].hash[1]
           count == NewCount(mloc[t].hit)
       IN  IF mloc[t].hit = None /\ h \in DOMAIN store
           THEN /\ resp' = [resp EXCEPT ![t] = [kind |-> "play", status |-> 500,
                                                error |-> "IntegrityError"]]
                /\ mloc' = [mloc EXCEPT ![t] = MIdle]
                /\ pc' = [pc EXCEPT ![t] = "idle"]
                /\ UNCHANGED store
           ELSE /\ store' = IF mloc[t].hit # None
                            THEN [store EXCEPT ![h].play_count = count]
                            ELSE Put(store, h, [score |-> 0, play_count |-> count])
                /\ mloc' = [mloc EXCEPT ![t].value = count]
                /\ pc' = [pc EXCEPT ![t] = "play_patch"]
                /\ UNCHANGED resp
    /\ UNCHANGED <<fs, clock, HASH_CACHE, HASH_CACHE_DIRTY, hashDisk,
                   VIDEO_INFO_CACHE, VIDEO_INFO_DIRTY, videoDisk, artifacts, heap,
                   MEDIA_CACHE, MEDIA_LOOKUP, SCAN_METADATA, booted, rloc, qloc,
                   budget,
                   asked, docs, seek>>

\* api_play: with MEDIA_LOCK patch the entries, then answer
PlayPatch(t) ==
    /\ pc[t] = "play_patch"
    /\ heap' = PatchPlayCount(heap, mloc[t].hash[1], mloc[t].value)
    /\ resp' = [resp EXCEPT ![t] = [kind |-> "play", status |-> 200,
                                    hash |-> mloc[t].hash[1],
                                    playCount |-> mloc[t].value]]
    /\ mloc' = [mloc EXCEPT ![t] = MIdle]
    /\ pc' = [pc EXCEPT ![t] = "idle"]
    /\ UNCHANGED <<fs, clock, store, HASH_CACHE, HASH_CACHE_DIRTY, hashDisk,
                   VIDEO_INFO_CACHE, VIDEO_INFO_DIRTY, videoDisk, artifacts,
                   MEDIA_CACHE, MEDIA_LOOKUP, SCAN_METADATA, booted, rloc, qloc,
                   budget,
                   asked, docs, seek>>

(***************************************************************************)
(* Queries: GET /api/files, GET /view/<path>, GET /api/low-rated.          *)
(***************************************************************************)
AllQueryParams ==
    [include_subfolders : BOOLEAN,
     rating_filter : {"all", "positive", "non_negative"},
     play_count_filter : {"all", "zero", "non_zero"}]
Unfiltered == [include_subfolders |-> TRUE, rating_filter |-> "all",
               play_count_filter |-> "all"]
\* the parameter choices the concurrent specification draws from
QueryParams ==
    {Unfiltered,
     [include_subfolders |-> TRUE, rating_filter |-> "positive",
      play_count_filter |-> "zero"]}
Thresholds == {0, 1}

\* a variant whose non_negative filter also drops the entries rated 0
KeepsAboveZeroOnly(e, params) ==
    /\ ~(~params.include_subfolders /\ HasSeparator(e.relative_path))
    /\ ~(params.rating_filter = "positive" /\ e.rating <= 0)
    /\ ~(params.rating_filter = "non_negative" /\ e.rating <= 0)
    /\ ~(params.play_count_filter = "zero" /\ e.play_count # 0)
    /\ ~(params.play_count_filter = "non_zero" /\ e.play_count = 0)

\* the tests of filter_entries' loop body: TRUE when the entry is kept
Keeps(e, params) ==
    /\ ~(~params.include_subfolders /\ HasSeparator(e.relative_path))
    /\ ~(params.rating_filter = "positive" /\ e.rating <= 0)
    /\ ~(params.rating_filter = "non_negative" /\ e.rating < 0)
    /\ ~(params.play_count_filter = "zero" /\ e.play_count # 0)
    /\ ~(params.play_count_filter = "non_zero" /\ e.play_count = 0)

RECURSIVE FilterList(_, _, _)
FilterList(list, h, params) ==
    IF list = <<>> THEN <<>>
    ELSE (IF Keeps(h[Head(list)], params) THEN <<Head(list)>> ELSE <<>>)
         \o FilterList(Tail(list), h, params)

\* MediaEntry.serialize
Serialize(e) ==
    [relativePath |-> e.relative_path, name |-> e.name, hash |-> e.media_hash,
     type |-> e.media_type, size |-> e.size, modified |-> e.modified,
     thumbnailUrl |-> <<"/thumbnails", e.thumbnail_name>>,
     previewUrls |-> [i \in DOMAIN e.preview_names |-> <<"/previews", e.preview_names[i]>>],
     rating |-> e.rating, duration |-> e.duration, playCount |-> e.play_count]

\* api_files, filter_entries: with MEDIA_LOCK: entries = list(MEDIA_CACHE)
ApiFiles(t, params) ==
    /\ CanStart(t)
    /\ budget' = Started
    /\ qloc' = [qloc EXCEPT ![t] = [QIdle EXCEPT !.params = Some(params),
                                                 !.entries = MEDIA_CACHE]]
    /\ pc' = [pc EXCEPT ![t] = "files_filter"]
    /\ resp' = [resp EXCEPT ![t] = NoResp]
    /\ UNCHANGED <<fs, clock, store, HASH_CACHE, HASH_CACHE_DIRTY, hashDisk,
                   VIDEO_INFO_CACHE, VIDEO_INFO_DIRTY, videoDisk, artifacts, heap,
                   MEDIA_CACHE, MEDIA_LOOKUP, SCAN_METADATA, booted, rloc, mloc,
                   asked, docs, seek>>

\* filter_entries: the loop that fills filtered
FilesFilter(t) ==
    /\ pc[t] = "files_filter"
    /\ qloc' = [qloc EXCEPT ![t].filtered = FilterList(qloc[t].entries, heap,
                                                       qloc[t].params[1]),
                            ![t].entries = <<>>]
    /\ pc' = [pc EXCEPT ![t] = "files_serialize"]
    /\ UNCHANGED <<MEDIA_CACHE, MEDIA_LOOKUP, rloc>>
    /\ heap' = Collect(heap)
    /\ UNCHANGED <<fs, clock, store, HASH_CACHE, HASH_CACHE_DIRTY, hashDisk,
                   VIDEO_INFO_CACHE, VIDEO_INFO_DIRTY, videoDisk, artifacts,
                   SCAN_METADATA, booted, mloc, resp, budget,
                   asked, docs, seek>>

\* filter_entries: return [entry.serialize() for entry in filtered]
FilesSerialize(t) ==
    /\ pc[t] = "files_serialize"
    /\ qloc' = [qloc EXCEPT ![t].media = [i \in DOMAIN qloc[t].filtered |->
                                             Serialize(heap[qloc[t].filtered[i]])],
                            ![t].filtered = <<>>]
    /\ pc' = [pc EXCEPT ![t] = "files_respond"]
    /\ UNCHANGED <<MEDIA_CACHE, MEDIA_LOOKUP, rloc>>
    /\ heap' = Collect(heap)
    /\ UNCHANGED <<fs, clock, store, HASH_CACHE, HASH_CACHE_DIRTY, hashDisk,
                   VIDEO_INFO_CACHE, VIDEO_INFO_DIRTY, videoDisk, artifacts,
                   SCAN_METADATA, booted, mloc, resp, budget,
                   asked, docs, seek>>

\* api_files: jsonify({"media": data, "scan": SCAN_METADATA})
FilesRespond(t) ==
    /\ pc[t] = "files_respond"
    /\ resp' = [resp EXCEPT ![t] = [kind |-> "files", status |-> 200,
                                    params |-> qloc[t].params[1],
                                    media |-> qloc[t].media,
                                    scan |-> SCAN_METADATA]]
    /\ qloc' = [qloc EXCEPT ![t] = QIdle]
    /\ pc' = [pc EXCEPT ![t] = "idle"]
    /\ UNCHANGED <<fs, clock, store, HASH_CACHE, HASH_CACHE_DIRTY, hashDisk,
                   VIDEO_INFO_CACHE, VIDEO_INFO_DIRTY, videoDisk, artifacts, heap,
                   MEDIA_CACHE, MEDIA_LOOKUP, SCAN_METADATA, booted, rloc, mloc,
                   budget,
                   asked, docs, seek>>

\* view_media: with MEDIA_LOCK: entry = MEDIA_LOOKUP.get(media_path)
ViewMedia(t, path) ==
    /\ CanStart(t)
    /\ budget' = Started
    /\ IF path \in DOMAIN MEDIA_LOOKUP
       THEN /\ qloc' = [qloc EXCEPT ![t] = [QIdle EXCEPT
                                               !.filtered = <<MEDIA_LOOKUP[path]>>]]
            /\ pc' = [pc EXCEPT ![t] = "view_serialize"]
            /\ resp' = [resp EXCEPT ![t] = NoResp]
       ELSE /\ resp' = [resp EXCEPT ![t] = [kind |-> "view", status |-> 404]]
            /\ UNCHANGED <<pc, qloc>>
    /\ UNCHANGED <<fs, clock, store, HASH_CACHE, HASH_CACHE_DIRTY, hashDisk,
                   VIDEO_INFO_CACHE, VIDEO_INFO_DIRTY, videoDisk, artifacts, heap,
                   MEDIA_CACHE, MEDIA_LOOKUP, SCAN_METADATA, booted, rloc, mloc,
                   asked, docs, seek>>

\* view_media: render_template_string(VIEW_TEMPLATE, entry=entry.serialize())
ViewSerialize(t) ==
    /\ pc[t] = "view_serialize"
    /\ resp' = [resp EXCEPT ![t] = [kind |-> "view", status |-> 200,
                                    entry |-> Serialize(heap[qloc[t].filtered[1]])]]
    /\ qloc' = [qloc EXCEPT ![t] = QIdle]
    /\ pc' = [pc EXCEPT ![t] = "idle"]
    /\ UNCHANGED <<MEDIA_CACHE, MEDIA_LOOKUP, rloc>>
    /\ heap' = Collect(heap)
    /\ UNCHANGED <<fs, clock, store, HASH_CACHE, HASH_CACHE_DIRTY, hashDisk,
                   VIDEO_INFO_CACHE, VIDEO_INFO_DIRTY, videoDisk, artifacts,
                   SCAN_METADATA, booted, mloc, budget,
                   asked, docs, seek>>

\* api_low_rated: the paths of the entries rated below the threshold
LowRatedPaths(threshold) ==
    LET below == {id \in Range(MEDIA_CACHE) : heap[id].rating < threshold}
        list == SeqFilter(MEDIA_CACHE, below)
    IN  [i \in DOMAIN list |-> heap[list[i]].relative_path]

ApiLowRated(t, threshold) ==
    /\ CanStart(t)
    /\ budget' = Started
    /\ resp' = [resp EXCEPT ![t] = [kind |-> "low_rated", status |-> 200,
                                    count |-> Len(LowRatedPaths(threshold)),
                                    paths |-> LowRatedPaths(threshold)]]
    /\ UNCHANGED <<fs, clock, store, HASH_CACHE, HASH_CACHE_DIRTY, hashDisk,
                   VIDEO_INFO_CACHE, VIDEO_INFO_DIRTY, videoDisk, artifacts, heap,
                   MEDIA_CACHE, MEDIA_LOOKUP, SCAN_METADATA, booted, pc, rloc,
                   mloc, qloc,
                   asked, docs, seek>>

(***************************************************************************)
(* The specifications.                                                     *)
(***************************************************************************)
ReindexStep(t) ==
    \/ RFetch(t) \/ RScan(t) \/ RHash(t) \/ RDuration(t) \/ RProbe(t)
    \/ RThumbs(t) \/ REntry(t) \/ RSwap(t)
    \/ RFlushHash(t) \/ RDumpHash(t) \/ RFlushVideo(t) \/ RDumpVideo(t)
    \/ RReturn(t)

MutationStep(t) ==
    \/ \E hash \in HashInputs, raw \in DeltaInputs : ApiRate(t, hash, raw)
    \/ RateRead(t) \/ RateWrite(t) \/ RatePatch(t)
    \/ \E hash \in HashInputs : ApiPlay(t, hash)
    \/ PlayRead(t) \/ PlayWrite(t) \/ PlayPatch(t)

\* the same with well-formed bodies only: a known identity, a delta of +1 or -1
WellFormedMutationStep(t) ==
    \/ \E h \in Hashes, tenths \in {10, -10} :
          ApiRate(t, Some(h), [kind |-> "number", tenths |-> tenths])
    \/ RateRead(t) \/ RateWrite(t) \/ RatePatch(t)
    \/ \E h \in Hashes : ApiPlay(t, Some(h))
    \/ PlayRead(t) \/ PlayWrite(t) \/ PlayPatch(t)

QueryStep(t) ==
    \/ \E params \in QueryParams : ApiFiles(t, params)
    \/ FilesFilter(t) \/ FilesSerialize(t) \/ FilesRespond(t)
    \/ \E path \in Paths : ViewMedia(t, RelativePosix(path))
    \/ ViewSerialize(t)
    \/ \E threshold \in Thresholds : ApiLowRated(t, threshold)

\* The server alone: one request at a time, nothing else touches the files.
Next ==
    \E t \in {"t1"} : ApiRefresh(t) \/ ReindexStep(t) \/ MutationStep(t) \/ QueryStep(t)

Spec == Init /\ [][Next]_vars

\* Concurrent rate and recordPlay requests.
NextMutations ==
    \E t \in Threads : ReindexStep(t) \/ MutationStep(t)

SpecMutations == Init /\ [][NextMutations]_vars

\* One request at a time, while files are moved and the process is restarted.
NextMoves ==
    \/ \E t \in {"t1"} : ApiRefresh(t) \/ ReindexStep(t) \/ MutationStep(t)
    \/ \E p \in Paths, q \in Paths : FsRename(p, q)
    \/ Restart

SpecMoves == InitMoves /\ [][NextMoves]_vars

\* Reindexes, one at a time, while files are written, deleted and renamed.
NextFiles ==
    \/ \E t \in {"t1"} : ApiRefresh(t) \/ ReindexStep(t)
    \/ \E p \in Paths, c \in Contents : FsWrite(p, c)
    \/ \E p \in Paths : FsDelete(p)
    \/ \E p \in Paths, q \in Paths : FsRename(p, q)

SpecFiles == InitFiles /\ [][NextFiles]_vars

\* One request at a time, ratings included, while a video is added and the
\* copies of the image are deleted, next to a text file.
NextIndex ==
    \/ \E t \in {"t1"} : ApiRefresh(t) \/ ReindexStep(t) \/ WellFormedMutationStep(t)
    \/ \E c \in Contents : FsWrite(PathV, c)
    \/ \E p \in {PathA, PathB} : FsDelete(p)

SpecIndex == InitIndex /\ [][NextIndex]_vars

\* Ratings and plays of one thread concurrent with the reindexes of the other.
NextRejoin ==
    \/ \E t \in {"t1"} : ApiRefresh(t) \/ ReindexStep(t)
    \/ \E t \in {"t2"} : WellFormedMutationStep(t)

SpecRejoin == InitRejoin /\ [][NextRejoin]_vars

\* One request at a time: ratings, plays and lists under every filter.
NextFilters ==
    \E t \in {"t1"} :
        \/ ReindexStep(t)
        \/ WellFormedMutationStep(t)
        \/ \E params \in AllQueryParams : ApiFiles(t, params)
        \/ FilesFilter(t) \/ FilesSerialize(t) \/ FilesRespond(t)

SpecFilters == InitFilters /\ [][NextFilters]_vars

\* Reindexes, one at a time, while a hidden file, a file in a hidden directory
\* and a second video are added, next to a file in the metadata area.
NextScan ==
    \/ \E t \in {"t1"} : ApiRefresh(t) \/ ReindexStep(t)
    \/ \E p \in {PathDot, PathHid, PathW}, c \in Contents : FsWrite(p, c)

SpecScan == InitScan /\ [][NextScan]_vars

\* a duration to compute the frame offsets for
InitOffsets ==
    /\ FreshDirectory({FilesAt({PathV})}, 0, 0)
    /\ seek \in {[NoSeek EXCEPT !.duration = d] : d \in DurationInputs}

\* One thread reindexing an image and a video across restarts, some of them
\* on cache documents that were damaged or removed while the process was down.
InitDocs == FirstStart({FilesAt({PathA, PathV})}, MaxDocEvents, MaxDocRefreshes)

NextDocs ==
    \/ \E t \in {"t1"} : ApiRefresh(t) \/ ReindexStep(t)
    \/ Restart
    \/ \E hk \in DocKinds, vk \in DocKinds : RestartOnDocuments(hk, vk)

SpecDocs == InitDocs /\ [][NextDocs]_vars

\* Queries of one thread concurrent with the ratings and plays of the other,
\* on an index that stays as the start built it.
InitSnapshot == FirstStart({FilesAt({PathA, PathV})}, 0, MaxSnapshotRequests)

NextSnapshot ==
    \/ \E t \in {"t1"} : ReindexStep(t) \/ WellFormedMutationStep(t)
    \/ \E t \in {"t2"} :
          \/ \E params \in QueryParams : ApiFiles(t, params)
          \/ FilesFilter(t) \/ FilesSerialize(t) \/ FilesRespond(t)

SpecSnapshot == InitSnapshot /\ [][NextSnapshot]_vars

\* Two threads reindexing while an image is deleted; the second thread starts
\* its reindex only once the image is gone.
InitStale == FirstStart({FilesAt({PathA, PathV})}, MaxStaleEvents, MaxStaleRefreshes)

NextStale ==
    \/ \E t \in {"t1"} : ApiRefresh(t) \/ ReindexStep(t)
    \/ \E t \in {"t2"} : (PathA \notin DOMAIN fs /\ ApiRefresh(t)) \/ ReindexStep(t)
    \/ FsDelete(PathA)

SpecStale == InitStale /\ [][NextStale]_vars

\* Two threads reindexing while the video is rewritten with other bytes: the
\* cache updates of one reindex meet the flushes of the other.
InitFlush == FirstStart({FilesAt({PathV})}, MaxFlushEvents, MaxFlushRefreshes)

NextFlush ==
    \/ \E t \in Threads : ApiRefresh(t) \/ ReindexStep(t)
    \/ (fs[PathV].content # "X" /\ FsWrite(PathV, "X"))

SpecFlush == InitFlush /\ [][NextFlush]_vars

\* One request at a time: ratings, plays and moves of the negatively rated
\* files.
InitMinus == FirstStart({FilesAt({PathA, PathV})}, 0, MaxMinusRequests)

NextMinus ==
    \E t \in {"t1"} :
        \/ ReindexStep(t)
        \/ WellFormedMutationStep(t)
        \/ ApiMoveNegative(t) \/ MoveNegativeFiles(t)

SpecMinus == InitMinus /\ [][NextMinus]_vars

\* The frame offsets of one duration.
NextOffsets == ThumbnailOffsetStep \/ PreviewOffsetsStep

SpecOffsets == InitOffsets /\ [][NextOffsets]_vars

\* Queries of one thread concurrent with the reindexes of the other, while
\* files are written and deleted.
NextQueries ==
    \/ \E t \in {"t1"} : ApiRefresh(t) \/ ReindexStep(t)
    \/ \E t \in {"t2"} : QueryStep(t)
    \/ \E p \in Paths, c \in Contents : FsWrite(p, c)
    \/ \E p \in Paths : FsDelete(p)

SpecQueries == InitQueries /\ [][NextQueries]_vars

(***************************************************************************)
(* Properties.                                                             *)
(***************************************************************************)
StoredScore(h) == IF h \in DOMAIN store THEN store[h].score ELSE 0
StoredPlays(h) == IF h \in DOMAIN store THEN store[h].play_count ELSE 0
AllIdle == \A t \in Threads : pc[t] = "idle"
Answered(t, kind) == resp[t].kind = kind /\ resp[t].status = 200
IndexEntries == {heap[id] : id \in Range(MEDIA_CACHE)}

\* C3: concurrent rate and recordPlay calls on one identity never lose an
\* update: once every call has ended, the stored score is the sum of the
\* deltas asked for and the stored play count is the number of plays asked for.
C3_NoLostUpdate ==
    AllIdle =>
        \A h \in Hashes :
            /\ StoredScore(h) = asked[h].score
            /\ StoredPlays(h) = asked[h].play_count

\* C9: with one rate call at a time, the stored score of an identity is the
\* sum of the deltas of the calls so far (0 when there is no record), so +1
\* then -1 restores it and N equal calls shift it by N; each call answers
\* with the score it stored.
C9_SequentialRatesAddUp ==
    AllIdle =>
        /\ \A h \in Hashes : StoredScore(h) = asked[h].score
        /\ \A t \in Threads :
              Answered(t, "rate") => resp[t].rating = StoredScore(resp[t].hash)

\* a rate call of -1 or +1 has just restored a score to 0
C9_Witness ==
    /\ AllIdle
    /\ Answered("t1", "rate")
    /\ resp["t1"].hash \in DOMAIN store
    /\ resp["t1"].rating = 0
    /\ asked[resp["t1"].hash] = [score |-> 0, play_count |-> 0]

\* the "delta" values that are +1 or -1
IsUnitDelta(raw) == raw.kind = "number" /\ raw.tenths \in {10, -10}

\* C10: a rate request without identity or with a delta other than +1 and -1,
\* and a recordPlay request without identity, is answered with an error and
\* changes neither the ratings table nor the index.
C10_InvalidRejected ==
    [][\A t \in Threads, hash \in HashInputs :
          /\ \A raw \in DeltaInputs :
                ApiRate(t, hash, raw) /\ (hash = None \/ ~IsUnitDelta(raw))
                    => /\ pc'[t] = "idle"
                       /\ resp'[t].status \in {400, 500}
                       /\ UNCHANGED <<store, heap>>
          /\ ApiPlay(t, hash) /\ hash = None
                    => /\ pc'[t] = "idle"
                       /\ resp'[t].status = 400
                       /\ UNCHANGED <<store, heap>>]_vars

\* C1: files with the same bytes get the same identity whatever their path,
\* and once a rate or recordPlay request has been answered (nothing else in
\* flight) every index entry of that identity shows the value it returned.
C1_SharedIdentity ==
    /\ \A p \in DOMAIN fs, q \in DOMAIN fs :
          fs[p].content = fs[q].content => ComputeFileHash(p) = ComputeFileHash(q)
    /\ \A t \in Threads :
          /\ Answered(t, "rate") =>
                \A e \in IndexEntries :
                    e.media_hash = resp[t].hash => e.rating = resp[t].rating
          /\ Answered(t, "play") =>
                \A e \in IndexEntries :
                    e.media_hash = resp[t].hash => e.play_count = resp[t].playCount

\* a rate request has been answered and two entries at different paths share
\* its identity and show its score
C1_Witness ==
    /\ Answered("t1", "rate")
    /\ resp["t1"].rating # 0
    /\ \E e1 \in IndexEntries, e2 \in IndexEntries :
          /\ e1.relative_path # e2.relative_path
          /\ e1.media_hash = resp["t1"].hash
          /\ e2.media_hash = resp["t1"].hash
          /\ e1.rating = resp["t1"].rating
          /\ e2.rating = resp["t1"].rating

\* C2: whatever a query returns comes from one index: the counters that
\* api_files returns with the unfiltered list describe that list.
C2_QuerySeesOneIndex ==
    \A t \in Threads :
        (Answered(t, "files") /\ resp[t].params = Unfiltered) =>
            /\ resp[t].scan.total = Len(resp[t].media)
            /\ resp[t].scan.videos =
                  Cardinality({i \in DOMAIN resp[t].media : resp[t].media[i].type = "video"})
            /\ resp[t].scan.images =
                  Cardinality({i \in DOMAIN resp[t].media : resp[t].media[i].type = "image"})

\* the positions of refresh_media_index after the swap
AfterSwap == {"r_flush_hash", "r_dump_hash", "r_flush_video", "r_dump_video", "r_return"}

\* C4: ratings and play counts survive moves and restarts: when a reindex has
\* swapped its list in and the ratings table is as it read it, every scanned
\* file that is still as it was hashed has an entry at its path, with the
\* identity of its bytes and with the stored score and play count of it.
C4_RatingsSurviveMoves ==
    \A t \in Threads :
        (pc[t] \in AfterSwap /\ store = rloc[t].metadata_map) =>
            \A p \in Range(rloc[t].files) \cap DOMAIN fs :
                HashCacheHit(p) =>
                    \E e \in IndexEntries :
                        /\ e.relative_path = RelativePosix(p)
                        /\ e.media_hash = Sha256Hex(fs[p].content)
                        /\ e.rating = StoredScore(e.media_hash)
                        /\ e.play_count = StoredPlays(e.media_hash)

\* after a restart, the reindex finds the rated file, once indexed as a.jpg
\* and since renamed to sub/b.JPG, with its score
C4_Witness ==
    /\ pc["t1"] = "r_return"
    /\ ~booted
    /\ CacheKey(PathA) \in DOMAIN HASH_CACHE
    /\ \E e \in IndexEntries :
          /\ e.relative_path = RelativePosix(PathB)
          /\ e.modified = InitialMtime(PathA)
          /\ e.rating # 0
          /\ e.rating = StoredScore(e.media_hash)

\* C5: once a file, data or zero-length sentinel, is at an artifact's name, no
\* later ensure_thumbnails call runs the tool for that artifact or rewrites it.
C5_NoRegeneration ==
    [][\A t \in Threads :
          (pc[t] = "r_thumbs" /\ pc'[t] = "r_entry") =>
              \A a \in DOMAIN artifacts :
                  a \notin rloc'[t].invoked /\ artifacts'[a] = artifacts[a]]_vars

\* a call for a video whose thumbnail is a sentinel has run no tool
C5_Witness ==
    /\ pc["t1"] = "r_entry"
    /\ MediaType(CurrentPath("t1")) = "video"
    /\ rloc["t1"].invoked = {}
    /\ artifacts[ThumbName(rloc["t1"].media_hash[1])] = "empty"

\* C6: compute_file_hash returns the cached identity without reading the bytes
\* when the path's cached signature is the file's; otherwise it reads them,
\* overwrites the path's cache entry with the file's signature and digest and
\* marks the cache dirty.
C6_HashMemoized ==
    [][\A t \in Threads :
          (pc[t] = "r_hash" /\ pc'[t] \in {"r_duration", "r_thumbs"}) =>
              LET p == CurrentPath(t)
                  k == CacheKey(p)
                  sig == Signature(fs[p])
                  digest == Sha256Hex(fs[p].content)
              IN  IF k \in DOMAIN HASH_CACHE /\ HASH_CACHE[k].sig = sig
                  THEN /\ rloc'[t].media_hash = Some(HASH_CACHE[k].hash)
                       /\ ~rloc'[t].read
                       /\ UNCHANGED <<HASH_CACHE, HASH_CACHE_DIRTY>>
                  ELSE /\ rloc'[t].media_hash = Some(digest)
                       /\ rloc'[t].read
                       /\ HASH_CACHE' = Put(HASH_CACHE, k, [sig |-> sig, hash |-> digest])
                       /\ HASH_CACHE_DIRTY']_vars

\* a file rewritten since it was cached has been hashed again from its bytes
C6_Witness ==
    /\ pc["t1"] \in {"r_duration", "r_thumbs"}
    /\ rloc["t1"].read
    /\ CacheKey(CurrentPath("t1")) \in DOMAIN hashDisk
    /\ hashDisk[CacheKey(CurrentPath("t1"))].sig # Signature(fs[CurrentPath("t1")])

\* C7: a file that disappears after the scanner listed it does not abort the
\* reindex: refresh_media_index never ends with the file-not-found error.
C7_VanishedFileSkipped ==
    \A t \in Threads :
        ~(/\ resp[t].status = 500
          /\ resp[t].kind \in {"boot", "refresh"}
          /\ resp[t].error = "FileNotFoundError")

\* C8: a failed thumbnail generation, of a video or of an image, is not
\* propagated: refresh_media_index never ends with the image library's error.
C8_ThumbnailFailureContained ==
    \A t \in Threads :
        ~(/\ resp[t].status = 500
          /\ resp[t].kind \in {"boot", "refresh"}
          /\ resp[t].error = "UnidentifiedImageError")

\* the files with a recognized extension that are under the scan root
RecognizedFiles == {p \in DOMAIN fs : SuffixLower(p.name) \in MEDIA_EXTENSIONS}

\* C11: when a reindex has swapped its list in, nothing else being in flight
\* and no file or rating having changed since it started, the index holds
\* exactly one entry per recognized file that is present: none for a deleted
\* file, and for each present file an entry with the identity of its bytes and
\* the stored score and play count of that identity (0 and 0 without a record).
C11_IndexMatchesFiles ==
    \A t \in Threads :
        (/\ pc[t] \in AfterSwap
         /\ \A u \in Threads \ {t} : pc[u] = "idle"
         /\ store = rloc[t].metadata_map
         /\ RecognizedFiles \subseteq Range(rloc[t].files)
         /\ \A p \in Range(rloc[t].files) : p \in DOMAIN fs /\ HashCacheHit(p)) =>
            /\ Len(MEDIA_CACHE) = Cardinality(RecognizedFiles)
            /\ \A p \in RecognizedFiles :
                  \E i \in DOMAIN MEDIA_CACHE :
                      LET e == heap[MEDIA_CACHE[i]]
                      IN  /\ e.relative_path = RelativePosix(p)
                          /\ e.media_hash = Sha256Hex(fs[p].content)
                          /\ e.rating = StoredScore(e.media_hash)
                          /\ e.play_count = StoredPlays(e.media_hash)

\* a refresh has indexed a file added since the last reindex, with the score
\* its bytes already had, and dropped a file that was indexed and then
\* deleted, next to a text file
C11_Witness ==
    /\ pc["t1"] = "r_return"
    /\ booted
    /\ PathN \in DOMAIN fs
    /\ PathB \notin DOMAIN fs
    /\ CacheKey(PathB) \in DOMAIN HASH_CACHE
    /\ Len(MEDIA_CACHE) = Cardinality(RecognizedFiles)
    /\ \E e \in IndexEntries :
          /\ e.relative_path = RelativePosix(PathV)
          /\ e.modified >= 4
          /\ e.rating # 0
          /\ e.rating = StoredScore(e.media_hash)

\* the list a reindex has built: new_entries before the swap, the index after
BuiltList(t) == IF pc[t] = "r_swap" THEN rloc[t].new_entries ELSE MEDIA_CACHE

\* C12: a rating or play that arrives during a reindex is in the store, and
\* the next reindex picks it up: when a reindex that read the ratings table
\* as it is now has built its list (and when it has swapped it in), the
\* mutations having returned, every entry shows what the clients asked for.
C12_NextReindexRejoins ==
    \A t \in Threads :
        (/\ pc[t] \in {"r_swap"} \cup AfterSwap
         /\ \A u \in Threads \ {t} : pc[u] = "idle"
         /\ store = rloc[t].metadata_map) =>
            \A id \in Range(BuiltList(t)) :
                /\ heap[id].rating = asked[heap[id].media_hash].score
                /\ heap[id].play_count = asked[heap[id].media_hash].play_count

\* a rate request was answered during the previous reindex, whose index does
\* not show the new score; the next reindex has built entries that show it
C12_Witness ==
    /\ pc["t1"] = "r_swap"
    /\ pc["t2"] = "idle"
    /\ Answered("t2", "rate")
    /\ store = rloc["t1"].metadata_map
    /\ \E e \in IndexEntries :
          e.media_hash = resp["t2"].hash /\ e.rating # resp["t2"].rating
    /\ \E id \in Range(rloc["t1"].new_entries) :
          heap[id].media_hash = resp["t2"].hash /\ heap[id].rating = resp["t2"].rating

\* what the filters ask of an entry
Matches(e, params) ==
    /\ params.rating_filter = "positive" => e.rating > 0
    /\ params.rating_filter = "non_negative" => e.rating >= 0
    /\ params.play_count_filter = "zero" => e.play_count = 0
    /\ params.play_count_filter = "non_zero" => e.play_count # 0
    /\ ~params.include_subfolders => ~HasSeparator(e.relative_path)

\* the views of the matching entries of the index, in index order
MatchingViews(params) ==
    LET kept == SeqFilter(MEDIA_CACHE,
                          {id \in Range(MEDIA_CACHE) : Matches(heap[id], params)})
    IN  [i \in DOMAIN kept |-> Serialize(heap[kept[i]])]

\* C13: the list api_files returns for an index is exactly the views of the
\* matching entries, in index order: nothing matching is dropped and nothing
\* else is returned.
C13_FilterIsExact ==
    \A t \in Threads :
        Answered(t, "files") => resp[t].media = MatchingViews(resp[t].params)

\* a list without subfolders under the non_negative filter: an entry rated
\* below 0 and an entry in a subfolder are left out, an entry rated 0 is not
C13_Witness ==
    /\ Answered("t1", "files")
    /\ resp["t1"].params.rating_filter = "non_negative"
    /\ ~resp["t1"].params.include_subfolders
    /\ \E e \in IndexEntries : e.rating < 0
    /\ \E e \in IndexEntries : e.rating = 0 /\ ~HasSeparator(e.relative_path)
    /\ Len(resp["t1"].media) = 1

\* the paths a thread has listed, hashed or indexed
PathsSeen ==
    UNION {Range(rloc[t].files) : t \in Threads}
    \cup {k[2] : k \in DOMAIN HASH_CACHE}
    \cup {heap[id].relative_path : id \in DOMAIN heap}

\* the file name or a directory component starts with a dot
Hidden(p) == StartsWithDot(p.name) \/ \E i \in DOMAIN p.dirs : StartsWithDot(p.dirs[i])

\* C14: the scanner skips hidden entries: no path whose file name or whose
\* directory component starts with a dot is listed, hashed or indexed.
C14_HiddenSkipped == \A p \in PathsSeen : ~Hidden(p)

\* the path is in the metadata directory or below it
UnderMetadataRoot(p) == Len(p.dirs) >= 1 /\ p.dirs[1] = "_metadata"

\* C15: the scanner prunes the metadata area: no file in the metadata
\* directory or below it is ever listed, hashed or indexed.
C15_MetadataPruned == \A p \in PathsSeen : ~UnderMetadataRoot(p)

\* a refresh has run over a tree with a thumbnail in the metadata area and
\* has generated artifacts
C15_Witness ==
    /\ pc["t1"] = "r_return"
    /\ booted
    /\ PathM \in DOMAIN fs
    /\ artifacts # EmptyMap
    /\ MEDIA_CACHE # <<>>

\* C18: get_video_duration returns the cached duration of the identity without
\* probing; on a miss it probes, and the probe never raises: a duration is
\* cached under the identity, 'unknown' leaves the cache as it is, and the
\* entry of the file carries whichever was returned.
C18_DurationCachedByIdentity ==
    [][\A t \in Threads :
          LET h == rloc[t].media_hash[1] IN
          /\ (pc[t] = "r_duration" /\ IsDict(docs.video) /\ pc'[t] # pc[t]) =>
                /\ UNCHANGED <<VIDEO_INFO_CACHE, VIDEO_INFO_DIRTY>>
                /\ IF h \in DOMAIN VIDEO_INFO_CACHE
                   THEN /\ pc'[t] = "r_thumbs"
                        /\ rloc'[t].duration = Some(VIDEO_INFO_CACHE[h].duration)
                        /\ ~rloc'[t].probed
                   ELSE pc'[t] = "r_probe"
          /\ (pc[t] = "r_probe" /\ pc'[t] # pc[t]) =>
                /\ pc'[t] = "r_thumbs"
                /\ rloc'[t].probed
                /\ IF rloc'[t].duration = None
                   THEN UNCHANGED <<VIDEO_INFO_CACHE, VIDEO_INFO_DIRTY>>
                   ELSE /\ VIDEO_INFO_CACHE' =
                              Put(VIDEO_INFO_CACHE, h, [duration |-> rloc'[t].duration[1]])
                        /\ VIDEO_INFO_DIRTY'
          /\ (pc[t] = "r_entry" /\ pc'[t] \in {"r_hash", "r_swap"}) =>
                heap'[rloc'[t].new_entries[Len(rloc'[t].new_entries)]].duration
                    = rloc[t].duration]_vars

\* the second of two videos with the same bytes got its duration without a
\* probe, from the entry the first one's probe cached in this reindex
C18_Witness ==
    /\ pc["t1"] = "r_thumbs"
    /\ CurrentPath("t1") = PathV
    /\ ~rloc["t1"].probed
    /\ rloc["t1"].duration # None
    /\ PathW \in DOMAIN fs
    /\ fs[PathW].content = fs[PathV].content
    /\ rloc["t1"].media_hash[1] \notin DOMAIN videoDisk

\* C16: for every known duration D the preview offsets are exactly
\* VIDEO_PREVIEW_COUNT, never decrease, and none exceeds D - 0.5.
C16_PreviewOffsetsWithinDuration ==
    (seek.duration # None /\ seek.previews # <<>>) =>
        /\ Len(seek.previews) = VIDEO_PREVIEW_COUNT
        /\ \A i \in DOMAIN seek.previews, j \in DOMAIN seek.previews :
              i < j => seek.previews[i] <= seek.previews[j]
        /\ \A i \in DOMAIN seek.previews :
              seek.previews[i] <= Ticks(seek.duration[1]) - 450

\* C17: the thumbnail offset is D x 0.1 for every known duration D below
\* PREVIEW_START_SECONDS, D = 0 included, and PREVIEW_START_SECONDS for every
\* other known duration and for an unknown one.
C17_ThumbnailOffset ==
    seek.thumbnail # None =>
        seek.thumbnail[1] =
            IF /\ seek.duration # None
               /\ Ticks(seek.duration[1]) < PREVIEW_START_SECONDS * TicksPerSecond
            THEN 9 * seek.duration[1]
            ELSE PREVIEW_START_SECONDS * TicksPerSecond

\* C19: a cache document that is absent, not parseable, or parseable but not
\* a map is treated as an empty cache: neither the start nor a reindex ends
\* with the error of using the loaded document as a map.
C19_CorruptCacheIsEmpty ==
    \A t \in Threads :
        ~(/\ resp[t].status = 500
          /\ resp[t].kind \in {"boot", "refresh"}
          /\ resp[t].error = "AttributeError")

\* C20: a query reads a point-in-time snapshot: whatever ratings and plays
\* run beside it, every view returned under the positive rating filter has a
\* rating above 0 and every view returned under the zero play count filter
\* has a play count of 0.
C20_QueryReadsSnapshot ==
    \A t \in Threads :
        Answered(t, "files") =>
            \A i \in DOMAIN resp[t].media :
                /\ resp[t].params.rating_filter = "positive" =>
                      resp[t].media[i].rating > 0
                /\ resp[t].params.play_count_filter = "zero" =>
                      resp[t].media[i].playCount = 0

\* C21: index and store agree at quiescence: when no reindex, rate or play
\* request is in flight, every index entry shows the stored score and the
\* stored play count of its identity (0 and 0 without a record).
C21_IndexAgreesWithStore ==
    (booted /\ AllIdle) =>
        \A e \in IndexEntries :
            /\ e.rating = StoredScore(e.media_hash)
            /\ e.play_count = StoredPlays(e.media_hash)

\* the store after a step differs from the store before it at most in the
\* record of h, and there at most in the given field
StoreTouchedOnlyAt(h, field) ==
    /\ DOMAIN store \subseteq DOMAIN store'
    /\ DOMAIN store' \subseteq DOMAIN store \cup {h}
    /\ \A k \in DOMAIN store : k # h => store'[k] = store[k]
    /\ IF field = "score"
       THEN store'[h].play_count = StoredPlays(h)
       ELSE store'[h].score = StoredScore(h)

\* C22: a rate request on h changes only the score of h: its write leaves
\* the play count of h and every other record as they were, its patch gives
\* the new rating to exactly the index entries of identity h and changes no
\* other entry and no other field. A play request on h does the same with
\* the play count, and leaves every score as it was.
C22_MutationTouchesOneField ==
    [][\A t \in Threads :
          /\ (pc[t] = "rate_write" /\ pc'[t] = "rate_patch") =>
                /\ StoreTouchedOnlyAt(mloc[t].hash[1], "score")
                /\ UNCHANGED <<heap, MEDIA_CACHE, MEDIA_LOOKUP>>
          /\ (pc[t] = "play_write" /\ pc'[t] = "play_patch") =>
                /\ StoreTouchedOnlyAt(mloc[t].hash[1], "play_count")
                /\ UNCHANGED <<heap, MEDIA_CACHE, MEDIA_LOOKUP>>
          /\ (pc[t] = "rate_patch" /\ pc'[t] = "idle" /\ resp'[t].kind = "rate") =>
                /\ UNCHANGED <<store, MEDIA_CACHE, MEDIA_LOOKUP>>
                /\ DOMAIN heap' = DOMAIN heap
                /\ \A id \in DOMAIN heap :
                      IF id \in Range(MEDIA_CACHE) /\ heap[id].media_hash = mloc[t].hash[1]
                      THEN heap'[id] = [heap[id] EXCEPT !.rating = mloc[t].value]
                      ELSE heap'[id] = heap[id]
          /\ (pc[t] = "play_patch" /\ pc'[t] = "idle" /\ resp'[t].kind = "play") =>
                /\ UNCHANGED <<store, MEDIA_CACHE, MEDIA_LOOKUP>>
                /\ DOMAIN heap' = DOMAIN heap
                /\ \A id \in DOMAIN heap :
                      IF id \in Range(MEDIA_CACHE) /\ heap[id].media_hash = mloc[t].hash[1]
                      THEN heap'[id] = [heap[id] EXCEPT !.play_count = mloc[t].value]
                      ELSE heap'[id] = heap[id]
      ]_vars

\* a play of a rated file was answered: its entries show the play and keep
\* their rating, an entry of another identity shows neither
C22_Witness ==
    /\ Answered("t1", "play")
    /\ AllIdle
    /\ \E e1 \in IndexEntries, e2 \in IndexEntries :
          /\ e1.media_hash = resp["t1"].hash
          /\ e1.play_count = resp["t1"].playCount
          /\ e1.rating # 0
          /\ StoredScore(e1.media_hash) = e1.rating
          /\ e2.media_hash # e1.media_hash
          /\ e2.play_count = 0 /\ e2.rating = 0

\* C23: concurrent reindexes never leave a stale index: once a reindex that
\* started after the deletion of a file has completed, the index holds no
\* entry for that file, whatever other reindex was in flight.
C23_NoStaleIndex ==
    (Answered("t2", "refresh") /\ PathA \notin DOMAIN fs) =>
        \A e \in IndexEntries : e.relative_path # RelativePosix(PathA)

\* C24: the scan counters are consistent with the index: once the server
\* runs, the snapshot's total is the number of index entries and is videos +
\* images; and the statistics every refresh_media_index call returns have
\* total = videos + images, also when two reindexes run concurrently.
C24_CountersDescribeIndex ==
    /\ booted =>
          /\ SCAN_METADATA.total = Len(MEDIA_CACHE)
          /\ SCAN_METADATA.total = SCAN_METADATA.videos + SCAN_METADATA.images
    /\ \A t \in Threads :
          (resp[t].kind \in {"boot", "refresh"} /\ resp[t].status = 200) =>
              resp[t].stats.total = resp[t].stats.videos + resp[t].stats.images

\* C26: every artifact the index refers to exists: for each index entry a
\* file, possibly a zero-length one, is at its thumbnail name; each video
\* entry lists exactly VIDEO_PREVIEW_COUNT preview names, those of its
\* identity and the frames 0 .. VIDEO_PREVIEW_COUNT - 1, with a file at each;
\* an image entry lists none.
C26_ArtifactsExist ==
    \A e \in IndexEntries :
        /\ e.thumbnail_name = ThumbName(e.media_hash)
        /\ e.thumbnail_name \in DOMAIN artifacts
        /\ IF e.media_type = "video"
           THEN /\ e.preview_names = PreviewNames(e.media_hash)
                /\ \A i \in DOMAIN e.preview_names :
                      e.preview_names[i] \in DOMAIN artifacts
           ELSE e.preview_names = <<>>

\* C27: no cache update is lost by flushing: whenever the dirty flag of the
\* hash cache is false (its lock being free), the document on disk equals the
\* map in memory, and the same for the duration cache, however the updates
\* of one thread interleave with the flushes of another.
C27_FlushLosesNothing ==
    /\ ~HASH_CACHE_DIRTY => hashDisk = HASH_CACHE
    /\ ~VIDEO_INFO_DIRTY => videoDisk = VIDEO_INFO_CACHE

\* the second thread has read the rewritten video, put its hash in one cache
\* and its duration in the other, and the flushes of the first thread have
\* written both to disk while the second reindex is still at that file
C27_Witness ==
    /\ pc["t1"] = "r_return"
    /\ pc["t2"] = "r_thumbs"
    /\ CurrentPath("t2") = PathV
    /\ rloc["t2"].read /\ rloc["t2"].probed
    /\ ~HASH_CACHE_DIRTY /\ ~VIDEO_INFO_DIRTY
    /\ CacheKey(PathV) \in DOMAIN hashDisk
    /\ hashDisk[CacheKey(PathV)].hash = Sha256Hex("X")
    /\ Sha256Hex("X") \in DOMAIN videoDisk

\* the pairs of consecutive preview offsets neither of which is the value
\* the clamp sets, duration - 0.5
UnclampedPairs ==
    {i \in 1..(Len(seek.previews) - 1) :
        /\ seek.previews[i] # Ticks(seek.duration[1]) - 450
        /\ seek.previews[i + 1] # Ticks(seek.duration[1]) - 450}

\* C28 as stated: for a known positive duration D, consecutive preview
\* offsets that the clamp does not affect differ by exactly D / K.
C28_SpacedByCount ==
    (seek.duration # None /\ seek.duration # Some(0) /\ seek.previews # <<>>) =>
        \A i \in UnclampedPairs :
            VIDEO_PREVIEW_COUNT * (seek.previews[i + 1] - seek.previews[i])
                = Ticks(seek.duration[1])

\* C28 as amended: for a known positive duration D, consecutive preview
\* offsets that the clamp does not affect differ by exactly D / (K + 1), and
\* by 0.1 where D / (K + 1) is less than 0.1.
C28_SpacedByCountPlusOne ==
    (seek.duration # None /\ seek.duration # Some(0) /\ seek.previews # <<>>) =>
        \A i \in UnclampedPairs :
            LET apart == seek.previews[i + 1] - seek.previews[i]
            IN  IF Ticks(seek.duration[1]) < 90 * (VIDEO_PREVIEW_COUNT + 1)
                THEN apart = 90
                ELSE (VIDEO_PREVIEW_COUNT + 1) * apart = Ticks(seek.duration[1])

\* the offsets of a video of 3 seconds: the first ones a third of a second
\* apart, the last one clamped to 2.5 seconds
C28_Witness ==
    /\ seek.duration = Some(30)
    /\ seek.previews # <<>>
    /\ 1 \in UnclampedPairs
    /\ seek.previews[2] - seek.previews[1] = 300
    /\ seek.previews[VIDEO_PREVIEW_COUNT] = 2250

\* C29: the path lookup mirrors the entry list: its keys are the relative
\* paths of the list's entries, no two entries of the list have the same
\* relative path, and each key maps to the very entry of the list that has
\* that path, so that what a patch writes through the list is read through
\* the lookup.
C29_LookupMirrorsList ==
    /\ DOMAIN MEDIA_LOOKUP = {heap[id].relative_path : id \in Range(MEDIA_CACHE)}
    /\ \A i \in DOMAIN MEDIA_CACHE, j \in DOMAIN MEDIA_CACHE :
          i # j => heap[MEDIA_CACHE[i]].relative_path # heap[MEDIA_CACHE[j]].relative_path
    /\ \A k \in DOMAIN MEDIA_LOOKUP :
          /\ MEDIA_LOOKUP[k] \in Range(MEDIA_CACHE)
          /\ heap[MEDIA_LOOKUP[k]].relative_path = k

\* a file was rated, and the view of its path, found through the lookup,
\* shows the rating the patch wrote through the list
C29_Witness ==
    /\ Answered("t1", "view")
    /\ resp["t1"].entry.rating # 0
    /\ resp["t1"].entry.rating = StoredScore(resp["t1"].entry.hash)
    /\ resp["t1"].entry.relativePath \in DOMAIN MEDIA_LOOKUP
    /\ heap[MEDIA_LOOKUP[resp["t1"].entry.relativePath]].rating = resp["t1"].entry.rating
    /\ Len(MEDIA_CACHE) >= 2

\* C25: when a move-negative request has completed, nothing else being in
\* flight, no file it reported as moved is in the index any more, under the
\* path it had or, with a rating below 0, under the path it was moved to; so
\* that a second move-negative request right after it would move no file.
C25_MovedFilesLeaveIndex ==
    \A t \in Threads :
        (Answered(t, "move") /\ AllIdle) =>
            \A i \in DOMAIN resp[t].moved_files :
                LET rel == resp[t].moved_files[i]
                IN  /\ rel \notin DOMAIN MEDIA_LOOKUP
                    /\ \A e \in IndexEntries :
                          e.rating < 0 => e.relative_path # MinusOf(rel)

====
